---- MODULE Spec2Model ----
(***************************************************************************)
(* Aurora Bayesian engine: the geological veto engine, the Bayesian fusion *)
(* engine and the commodity playbook, as state machines over the inputs    *)
(* and results of their operations.                                        *)
(*                                                                         *)
(* Numbers.  Certainties and confidence thresholds are hundredths (0.8 is  *)
(* 80).  Ages are tenths of a Ma ("45 Ma" is 450).  Thickness and closure  *)
(* are whole metres.  In the fusion engine a prior mean is in thousandths, *)
(* a likelihood mean in tenths, an input variance in hundredths; a         *)
(* variance is the exact fraction [n, d]; a posterior mean and its bounds  *)
(* are in ten-thousandths (1.0 is 10000); z-scores are thousandths.        *)
(*                                                                         *)
(* JavaScript values.  undefined is the string "undefined"; the optional   *)
(* booleans fault_seal and basin_seal are "true", "false" or "undefined".  *)
(* The nested Target object is flattened: geological_context.stratigraphy  *)
(* .reservoir_unit is the field reservoir_unit, and so on; target.evidence *)
(* is the variable evidence.  Playbook strengths are thirtieths (0.1 is 3, *)
(* 1.0 is 30); a playbook confidence is the exact fraction [n, d].         *)
(* The timestamp of a VetoResult (new Date()) is left out of the results.  *)
(***************************************************************************)
EXTENDS Integers, Sequences, FiniteSets, TLC

VARIABLES
    target,      \* the Target the veto engine is asked about
    veto,        \* <<the VetoResult evaluateVeto returned for target>>
    specific,    \* <<the outcome of the last checkSpecificCondition>>
    prior,       \* the PriorDistribution handed to the fusion engine
    likelihoods, \* the likelihoods handed to it, in insertion order
    posterior,   \* <<the PosteriorDistribution it returned>>
    evidence,    \* the evidence lists of the Target (target.evidence)
    playbook,    \* the PlaybookResults of the evaluatePlaybook calls so far
    call,        \* the arguments of a method called on its own
    returned     \* <<the value that method returned>>

vars ==
    <<target, veto, specific, prior, likelihoods, posterior, evidence,
      playbook, call, returned>>

None == "none"
\* A variable that holds no result yet; <<r>> once it holds the result r.
NoResult == <<>>
Undefined == "undefined"

-----------------------------------------------------------------------------
(* Strings *)

\* String.prototype.toLowerCase on the strings the targets carry.
ToLowerCase(s) ==
    CASE s = "Severe" -> "severe"
      [] s = "Collisional" -> "collisional"
      [] s = "Granulite" -> "granulite"
      [] s = "Deep" -> "deep"
      [] s = "High" -> "high"
      [] s = "Deep_Marine" -> "deep_marine"
      [] OTHER -> s

\* The proper substrings that matter, among the strings the targets carry.
ProperSubstrings ==
    { <<"volcaniclastic sandstone", "volcanic">>,
      <<"volcaniclastic sandstone", "sandstone">>,
      <<"continental_arc", "arc">>,
      <<"continental_arc", "continental">>,
      <<"circular_variance", "circular">> }

\* String.prototype.includes
StrIncludes(s, sub) == s = sub \/ <<s, sub>> \in ProperSubstrings

\* !!value for a string or undefined
Truthy(v) == v # Undefined /\ v # ""

\* Array.prototype.includes: strict equality with an element
ArrIncludes(arr, v) == v \in arr

Digits == {"0", "1", "2", "3", "4", "5", "6", "7", "8", "9"}

DigitValue(c) ==
    CASE c = "0" -> 0 [] c = "1" -> 1 [] c = "2" -> 2 [] c = "3" -> 3
      [] c = "4" -> 4 [] c = "5" -> 5 [] c = "6" -> 6 [] c = "7" -> 7
      [] c = "8" -> 8 [] c = "9" -> 9

\* The end of the longest run of digits of s that starts at i (i - 1 if none).
RECURSIVE DigitsEnd(_, _)
DigitsEnd(s, i) ==
    IF i <= Len(s) /\ s[i] \in Digits THEN DigitsEnd(s, i + 1) ELSE i - 1

RECURSIVE SpaceEnd(_, _)
SpaceEnd(s, i) ==
    IF i <= Len(s) /\ s[i] = " " THEN SpaceEnd(s, i + 1) ELSE i - 1

\* /\s*Ma/i matched at position i
MaAt(s, i) ==
    LET j == SpaceEnd(s, i) + 1
    IN  /\ j + 1 <= Len(s)
        /\ s[j] \in {"M", "m"}
        /\ s[j + 1] \in {"a", "A"}

RECURSIVE DigitsValue(_, _, _)
DigitsValue(s, i, j) ==
    IF i > j THEN 0 ELSE DigitsValue(s, i, j - 1) * 10 + DigitValue(s[j])

\* /(\d+(?:\.\d+)?)\s*Ma/i tried at start position i: the number captured, in
\* tenths, or -1 when the expression does not match there.  \d+ is greedy and
\* giving digits back never helps, the next character being a digit; the
\* optional fraction is tried first and then dropped.
MatchAgeAt(s, i) ==
    LET e == DigitsEnd(s, i)
        hasFrac == /\ e >= i
                   /\ e + 2 <= Len(s)
                   /\ s[e + 1] = "."
                   /\ s[e + 2] \in Digits
        fe == IF hasFrac THEN DigitsEnd(s, e + 2) ELSE e
    IN  IF e < i THEN -1
        ELSE IF hasFrac /\ MaAt(s, fe + 1)
             THEN DigitsValue(s, i, e) * 10 + DigitValue(s[e + 2])
        ELSE IF MaAt(s, e + 1) THEN DigitsValue(s, i, e) * 10
        ELSE -1

RECURSIVE ParseAgeFrom(_, _)
ParseAgeFrom(s, i) ==
    IF i > Len(s) THEN 1000
    ELSE IF MatchAgeAt(s, i) >= 0 THEN MatchAgeAt(s, i)
    ELSE ParseAgeFrom(s, i + 1)

\* parseAge: the first "N Ma" of the string, else 100 (1000 tenths).  The ages
\* of the model carry at most one decimal, so tenths are exact.
ParseAge(age) == ParseAgeFrom(age, 1)

\* parseAge with a fallback of 0 in place of 100.
ParseAgeOrZero(age) ==
    IF \E i \in 1..Len(age) : MatchAgeAt(age, i) >= 0
    THEN ParseAgeFrom(age, 1)
    ELSE 0

\* PriorEngineService.parseAge: age.match(/(\d+(?:\.\d+)?)\s*Ma/i), then
\* parseFloat(match[1]) or 100.
PriorEngineParseAge(age) ==
    LET starts == {i \in 1..Len(age) : MatchAgeAt(age, i) >= 0}
    IN  IF starts = {} THEN 1000
        ELSE MatchAgeAt(age, CHOOSE i \in starts : \A j \in starts : i <= j)

\* CopperPorphyryPlaybook.parseAge: the same expression and the same
\* fallback.
PlaybookParseAge(age) == ParseAgeFrom(age, 1)

-----------------------------------------------------------------------------
(* The veto taxonomy *)

\* VETO_TAXONOMY, in the order Object.entries visits it (insertion order).
VETO_TAXONOMY ==
    << [category |-> "stratigraphic",
        conditions |-> << "no_reservoir_unit", "wrong_facies", "missing_seal",
                          "eroded_sequence",
                          "incompatible_depositional_environment" >>],
       [category |-> "temporal",
        conditions |-> << "timing_mismatch", "charge_after_trap",
                          "breach_before_preservation",
                          "age_incompatible_with_commodity" >>],
       [category |-> "structural",
        conditions |-> << "basin_unsealed", "fault_breach", "no_closure",
                          "incompatible_structural_style", "trap_destroyed" >>],
       [category |-> "preservation",
        conditions |-> << "uplifted_eroded", "metamorphosed",
                          "weathered_destroyed", "exhumed",
                          "thermally_overmature" >>] >>

\* vetoConditions: name, category, the check it calls, severity and
\* confidence_required (hundredths).
vetoConditions ==
    << [name |-> "no_reservoir_unit", category |-> "stratigraphic",
        check |-> "checkNoReservoirUnit", severity |-> "critical",
        confidence_required |-> 80],
       [name |-> "wrong_facies", category |-> "stratigraphic",
        check |-> "checkWrongFacies", severity |-> "major",
        confidence_required |-> 70],
       [name |-> "missing_seal", category |-> "stratigraphic",
        check |-> "checkMissingSeal", severity |-> "critical",
        confidence_required |-> 80],
       [name |-> "eroded_sequence", category |-> "stratigraphic",
        check |-> "checkErodedSequence", severity |-> "critical",
        confidence_required |-> 90],
       [name |-> "timing_mismatch", category |-> "temporal",
        check |-> "checkTimingMismatch", severity |-> "major",
        confidence_required |-> 70],
       [name |-> "charge_after_trap", category |-> "temporal",
        check |-> "checkChargeAfterTrap", severity |-> "critical",
        confidence_required |-> 80],
       [name |-> "age_incompatible_with_commodity", category |-> "temporal",
        check |-> "checkAgeIncompatible", severity |-> "critical",
        confidence_required |-> 80],
       [name |-> "basin_unsealed", category |-> "structural",
        check |-> "checkBasinUnsealed", severity |-> "critical",
        confidence_required |-> 80],
       [name |-> "fault_breach", category |-> "structural",
        check |-> "checkFaultBreach", severity |-> "critical",
        confidence_required |-> 70],
       [name |-> "no_closure", category |-> "structural",
        check |-> "checkNoClosure", severity |-> "critical",
        confidence_required |-> 80],
       [name |-> "trap_destroyed", category |-> "structural",
        check |-> "checkTrapDestroyed", severity |-> "critical",
        confidence_required |-> 80],
       [name |-> "uplifted_eroded", category |-> "preservation",
        check |-> "checkUpliftedEroded", severity |-> "critical",
        confidence_required |-> 90],
       [name |-> "metamorphosed", category |-> "preservation",
        check |-> "checkMetamorphosed", severity |-> "critical",
        confidence_required |-> 80],
       [name |-> "weathered_destroyed", category |-> "preservation",
        check |-> "checkWeatheredDestroyed", severity |-> "major",
        confidence_required |-> 70],
       [name |-> "thermally_overmature", category |-> "preservation",
        check |-> "checkThermallyOvermature", severity |-> "critical",
        confidence_required |-> 80] >>

\* this.vetoConditions.find(c => c.name === conditionName): the index of the
\* first condition of that name, 0 when find returns undefined.
FindCondition(conditionName) ==
    LET hits == {i \in 1..Len(vetoConditions) :
                    vetoConditions[i].name = conditionName}
    IN  IF hits = {} THEN 0 ELSE CHOOSE i \in hits : \A j \in hits : i <= j

\* getEvidenceForCondition: the same mock list for every condition.
GetEvidenceForCondition(conditionName, t) ==
    << "regional geological maps", "stratigraphic columns",
       "structural cross-sections", "geochronology data",
       "thermal history models" >>

-----------------------------------------------------------------------------
(* The condition checks.  details carries the fixed text of the message. *)

ReservoirFacies(commodity) ==
    CASE commodity = "copper_porphyry" -> {"intrusive", "volcanic", "plutonic"}
      [] commodity = "lithium_brine" -> {"evaporite", "lacustrine", "playa"}
      [] commodity = "hydrocarbon_onshore" -> {"sandstone", "limestone", "dolomite"}
      [] commodity = "hydrocarbon_offshore" -> {"sandstone", "limestone", "chalk"}
      [] OTHER -> {}

CheckNoReservoirUnit(t) ==
    LET hasReservoir == Truthy(t.reservoir_unit)
        faciesCompatible ==
            \E f \in ReservoirFacies(t.commodity) :
                StrIncludes(ToLowerCase(t.facies), f)
        passed == hasReservoir /\ faciesCompatible
    IN  [passed |-> passed,
         details |-> IF passed THEN "Viable reservoir unit identified"
                     ELSE "No viable reservoir unit",
         certainty |-> 90]

IncompatibleFacies(commodity) ==
    CASE commodity = "copper_porphyry" -> {"deep_marine", "pelagic", "aeolian"}
      [] commodity = "lithium_brine" -> {"volcanic", "metamorphic", "igneous"}
      [] commodity = "hydrocarbon_onshore" ->
            {"volcanic", "metamorphic", "high_energy_clastic"}
      [] commodity = "hydrocarbon_offshore" -> {"continental", "fluvial", "aeolian"}
      [] OTHER -> {}

CheckWrongFacies(t) ==
    LET isIncompatible ==
            \E f \in IncompatibleFacies(t.commodity) :
                StrIncludes(ToLowerCase(t.facies), f)
    IN  [passed |-> ~isIncompatible,
         details |-> IF isIncompatible THEN "Facies incompatible"
                     ELSE "Facies compatible",
         certainty |-> 80]

CheckMissingSeal(t) ==
    LET hasSeal == Truthy(t.seal_unit)
        sealRequired == ~ArrIncludes({"copper_porphyry"}, t.commodity)
        passed == ~sealRequired \/ hasSeal
    IN  [passed |-> passed,
         details |-> IF passed
                     THEN IF sealRequired THEN "Effective seal present"
                          ELSE "Seal not required"
                     ELSE "No seal unit present",
         certainty |-> 85]

CheckErodedSequence(t) ==
    LET severelyEroded ==
            ArrIncludes({"severe", "complete", "extreme"},
                        ToLowerCase(t.erosion_level))
        insufficientThickness == t.thickness < 50
        passed == ~severelyEroded /\ ~insufficientThickness
    IN  [passed |-> passed,
         details |-> IF passed THEN "Target sequence preserved"
                     ELSE "Target sequence eroded",
         certainty |-> 90]

\* ageRanges, in tenths of a Ma; [0, 1000] Ma for any other commodity.
AgeRange(commodity) ==
    CASE commodity = "copper_porphyry" -> <<10, 1000>>
      [] commodity = "lithium_brine" -> <<0, 100>>
      [] commodity = "hydrocarbon_onshore" -> <<500, 5000>>
      [] commodity = "hydrocarbon_offshore" -> <<100, 2000>>
      [] OTHER -> <<0, 10000>>

CheckTimingMismatch(t) ==
    LET ageMa == ParseAge(t.age)
        minAge == AgeRange(t.commodity)[1]
        maxAge == AgeRange(t.commodity)[2]
        timingCompatible == ageMa >= minAge /\ ageMa <= maxAge
    IN  [passed |-> timingCompatible,
         details |-> IF timingCompatible THEN "Age compatible"
                     ELSE "Age incompatible",
         certainty |-> 80]

CheckChargeAfterTrap(t) ==
    LET structuralAge == ParseAge(t.age)
        mineralizationAge == structuralAge - 50
        chargeAfterTrap == mineralizationAge > structuralAge
    IN  [passed |-> ~chargeAfterTrap,
         details |-> IF chargeAfterTrap
                     THEN "Mineralization occurred after trap formation"
                     ELSE "Mineralization timing compatible with trap formation",
         certainty |-> 70]

\* An age check of its own that no age satisfies.
CheckAgeNeverCompatible(t) ==
    [passed |-> FALSE, details |-> "Age incompatible", certainty |-> 80]

\* checkAgeIncompatible: return this.checkTimingMismatch(target)
CheckAgeIncompatible(t) == CheckTimingMismatch(t)

CheckBasinUnsealed(t) ==
    LET passed == t.basin_seal # "false" /\ t.closure > 10
    IN  [passed |-> passed,
         details |-> IF passed THEN "Basin sealed"
                     ELSE "Basin unsealed or insufficient closure",
         certainty |-> 80]

CheckFaultBreach(t) ==
    LET passed == t.fault_seal # "false"
    IN  [passed |-> passed,
         details |-> IF passed THEN "Faults are sealed or absent"
                     ELSE "Faults have breached the trap",
         certainty |-> 70]

CheckNoClosure(t) ==
    LET hasStructuralClosure == t.closure > 5
        trapType == IF Truthy(t.trap_type) THEN t.trap_type ELSE ""
        hasStratigraphicTrap ==
            ArrIncludes({"stratigraphic", "combination", "unconformity"}, trapType)
        passed == hasStructuralClosure \/ hasStratigraphicTrap
    IN  [passed |-> passed,
         details |-> IF passed THEN "Trap closure present"
                     ELSE "No viable trap closure identified",
         certainty |-> 80]

CheckTrapDestroyed(t) ==
    LET destroyed ==
            ArrIncludes({"collisional", "orogenic", "compressional"},
                        ToLowerCase(t.tectonic_setting))
    IN  [passed |-> ~destroyed,
         details |-> IF destroyed THEN "Trap likely destroyed"
                     ELSE "Trap preserved in current tectonic setting",
         certainty |-> 70]

CheckUpliftedEroded(t) ==
    LET severelyUplifted ==
            ArrIncludes({"high", "extreme", "major"}, ToLowerCase(t.uplift_level))
        severelyEroded ==
            ArrIncludes({"severe", "complete", "extreme"},
                        ToLowerCase(t.erosion_level))
        passed == ~severelyUplifted /\ ~severelyEroded
    IN  [passed |-> passed,
         details |-> IF passed THEN "Target preserved"
                     ELSE "Target destroyed by uplift/erosion",
         certainty |-> 90]

CheckMetamorphosed(t) ==
    LET highGrade ==
            ArrIncludes({"amphibolite", "granulite", "eclogite", "high-grade"},
                        ToLowerCase(t.metamorphic_grade))
    IN  [passed |-> ~highGrade,
         details |-> IF ~highGrade THEN "Metamorphic grade suitable"
                     ELSE "Target over-metamorphosed",
         certainty |-> 80]

CheckWeatheredDestroyed(t) ==
    LET severeWeathering ==
            ArrIncludes({"severe", "intense", "extreme", "deep"},
                        ToLowerCase(t.weathering))
    IN  [passed |-> ~severeWeathering,
         details |-> IF ~severeWeathering THEN "Weathering level acceptable"
                     ELSE "Target destroyed by weathering",
         certainty |-> 70]

CheckThermallyOvermature(t) ==
    LET age == ParseAge(t.age)
        thermallyUnsuitable ==
            \/ age < 100 /\ ArrIncludes({"arc", "rift"}, t.tectonic_setting)
            \/ age > 5000 /\ ArrIncludes({"collisional", "orogenic"},
                                         t.tectonic_setting)
    IN  [passed |-> ~thermallyUnsuitable,
         details |-> IF ~thermallyUnsuitable
                     THEN "Thermal maturity suitable for preservation"
                     ELSE "Target thermally overmature or immature",
         certainty |-> 70]

\* condition.check(target): the closure each vetoConditions entry holds.
RunCheck(check, t) ==
    CASE check = "checkNoReservoirUnit" -> CheckNoReservoirUnit(t)
      [] check = "checkWrongFacies" -> CheckWrongFacies(t)
      [] check = "checkMissingSeal" -> CheckMissingSeal(t)
      [] check = "checkErodedSequence" -> CheckErodedSequence(t)
      [] check = "checkTimingMismatch" -> CheckTimingMismatch(t)
      [] check = "checkChargeAfterTrap" -> CheckChargeAfterTrap(t)
      [] check = "checkAgeIncompatible" -> CheckAgeIncompatible(t)
      [] check = "checkBasinUnsealed" -> CheckBasinUnsealed(t)
      [] check = "checkFaultBreach" -> CheckFaultBreach(t)
      [] check = "checkNoClosure" -> CheckNoClosure(t)
      [] check = "checkTrapDestroyed" -> CheckTrapDestroyed(t)
      [] check = "checkUpliftedEroded" -> CheckUpliftedEroded(t)
      [] check = "checkMetamorphosed" -> CheckMetamorphosed(t)
      [] check = "checkWeatheredDestroyed" -> CheckWeatheredDestroyed(t)
      [] check = "checkThermallyOvermature" -> CheckThermallyOvermature(t)

\* { ...result, evidence: this.getEvidenceForCondition(conditionName, target) }
WithEvidence(result, conditionName, t) ==
    [passed |-> result.passed, details |-> result.details,
     certainty |-> result.certainty,
     evidence |-> GetEvidenceForCondition(conditionName, t)]

-----------------------------------------------------------------------------
(* evaluateCategory and evaluateVeto *)

\* Blocks with > for >=: a certainty equal to the threshold no longer blocks.
BlocksStrict(result, condition) ==
    ~result.passed /\ result.certainty > condition.confidence_required

\* The test of evaluateCategory that ends a category: the check is negative
\* and its certainty reaches the condition's confidence_required.
Blocks(result, condition) ==
    ~result.passed /\ result.certainty >= condition.confidence_required

\* The loop of evaluateCategory from the i-th condition name on, with the
\* results pushed so far.  A name without a vetoConditions entry is skipped.
RECURSIVE EvaluateCategoryFrom(_, _, _, _)

\* The body of that loop for a condition that was found and the result its
\* check returned.
EvaluateCondition(conditions, i, conditionResults, t, condition, result) ==
    LET conditionName == conditions[i]
        pushed == Append(conditionResults,
                         WithEvidence(result, conditionName, t))
    IN  IF Blocks(result, condition)
        THEN [passed |-> FALSE,
              failed_condition |-> conditionName,
              failure_reason |-> result.details,
              all_results |-> pushed]
        ELSE EvaluateCategoryFrom(conditions, i + 1, pushed, t)

EvaluateCategoryFrom(conditions, i, conditionResults, t) ==
    IF i > Len(conditions)
    THEN [passed |-> TRUE, failed_condition |-> Undefined,
          failure_reason |-> Undefined, all_results |-> conditionResults]
    ELSE LET found == FindCondition(conditions[i])
         IN  IF found = 0
             THEN EvaluateCategoryFrom(conditions, i + 1, conditionResults, t)
             ELSE EvaluateCondition(conditions, i, conditionResults, t,
                                    vetoConditions[found],
                                    RunCheck(vetoConditions[found].check, t))

\* EvaluateCategory with the loop started one condition late.
EvaluateCategoryFromSecond(category, conditions, t) ==
    EvaluateCategoryFrom(conditions, 2, <<>>, t)

EvaluateCategory(category, conditions, t) ==
    EvaluateCategoryFrom(conditions, 1, <<>>, t)

\* CountPassed without its filter: every check counted as passed.
CountPassedUnfiltered(results) == Len(results)

\* all_results.filter(r => r.passed).length
CountPassed(results) == Cardinality({i \in 1..Len(results) : results[i].passed})

\* all_results.filter(r => !r.passed).length
CountFailed(results) == Cardinality({i \in 1..Len(results) : ~results[i].passed})

\* The loop of evaluateVeto from the i-th category on; c holds the audit
\* trail and the three counters.
RECURSIVE EvaluateVetoFrom(_, _, _, _)

\* The body of that loop for the result evaluateCategory returned.
RecordCategory(taxonomy, i, c, t, categoryResult) ==
    LET category == taxonomy[i].category
        n == [auditTrail |-> Append(c.auditTrail, categoryResult),
              totalChecks |-> c.totalChecks + Len(categoryResult.all_results),
              passedChecks |->
                  c.passedChecks + CountPassed(categoryResult.all_results),
              failedChecks |->
                  c.failedChecks + CountFailed(categoryResult.all_results)]
    IN  IF ~categoryResult.passed
        THEN [passed |-> FALSE, probability |-> 0,
              failure_category |-> category,
              failure_condition |-> categoryResult.failed_condition,
              failure_reason |-> categoryResult.failure_reason,
              audit_trail |-> n.auditTrail,
              total_checks |-> n.totalChecks,
              passed_checks |-> n.passedChecks,
              failed_checks |-> n.failedChecks]
        ELSE EvaluateVetoFrom(taxonomy, i + 1, n, t)

EvaluateVetoFrom(taxonomy, i, c, t) ==
    IF i > Len(taxonomy)
    THEN [passed |-> TRUE, probability |-> 1,
          failure_category |-> Undefined, failure_condition |-> Undefined,
          failure_reason |-> Undefined, audit_trail |-> c.auditTrail,
          total_checks |-> c.totalChecks, passed_checks |-> c.passedChecks,
          failed_checks |-> c.failedChecks]
    ELSE RecordCategory(taxonomy, i, c, t,
                        EvaluateCategory(taxonomy[i].category,
                                         taxonomy[i].conditions, t))

\* EvaluateVetoOf without the return inside the loop: every category is
\* evaluated and pushed before the first failing one is reported.
EvaluateVetoWithoutEarlyReturn(t) ==
    LET r == [k \in 1..Len(VETO_TAXONOMY) |->
                 EvaluateCategory(VETO_TAXONOMY[k].category,
                                  VETO_TAXONOMY[k].conditions, t)]
        all == EvaluateVetoFrom(<<>>, 1,
                                [auditTrail |-> r, totalChecks |-> 0,
                                 passedChecks |-> 0, failedChecks |-> 0], t)
        failing == {k \in DOMAIN r : ~r[k].passed}
    IN  IF failing = {} THEN EvaluateVetoFrom(VETO_TAXONOMY, 1,
                                 [auditTrail |-> <<>>, totalChecks |-> 0,
                                  passedChecks |-> 0, failedChecks |-> 0], t)
        ELSE LET k == CHOOSE x \in failing : \A y \in failing : x <= y
             IN  [all EXCEPT !.passed = FALSE, !.probability = 0,
                             !.failure_category = VETO_TAXONOMY[k].category,
                             !.failure_condition = r[k].failed_condition,
                             !.failure_reason = r[k].failure_reason]

EvaluateVetoOf(t) ==
    EvaluateVetoFrom(VETO_TAXONOMY, 1,
                     [auditTrail |-> <<>>, totalChecks |-> 0,
                      passedChecks |-> 0, failedChecks |-> 0], t)

\* checkSpecificCondition: throws when no vetoConditions entry has the name.
CheckSpecificConditionOf(conditionName, t) ==
    LET found == FindCondition(conditionName)
    IN  IF found = 0
        THEN [name |-> conditionName, threw |-> "Error: Veto condition not found",
              result |-> NoResult]
        ELSE [name |-> conditionName, threw |-> None,
              result |-> << WithEvidence(
                                RunCheck(vetoConditions[found].check, t),
                                conditionName, t) >>]

\* getVetoTaxonomy: every condition name the taxonomy lists.
TaxonomyNames ==
    UNION { {VETO_TAXONOMY[i].conditions[j] :
                j \in 1..Len(VETO_TAXONOMY[i].conditions)} :
            i \in 1..Len(VETO_TAXONOMY) }

-----------------------------------------------------------------------------
(* Targets *)

\* target.evidence with nothing in its lists.
NoEvidence == [chemical |-> <<>>, structural |-> <<>>, physical |-> <<>>]

\* A copper porphyry target that no condition rejects.
BaseTarget ==
    [commodity |-> "copper_porphyry",
     tectonic_setting |-> "continental_arc",
     age |-> <<"4", "5", " ", "M", "a">>,
     reservoir_unit |-> "Unit A",
     seal_unit |-> Undefined,
     facies |-> "intrusive",
     thickness |-> 200,
     trap_type |-> "anticline",
     closure |-> 20,
     fault_seal |-> "true",
     basin_seal |-> "true",
     uplift_level |-> "low",
     erosion_level |-> "low",
     metamorphic_grade |-> "greenschist",
     weathering |-> "moderate"]

\* The values each field of a target takes in the model.
FieldValues ==
    [commodity |-> {"copper_porphyry", "lithium_brine", "hydrocarbon_onshore",
                    "hydrocarbon_offshore", "gold_orogenic"},
     tectonic_setting |-> {"continental_arc", "arc", "Collisional", "rift"},
     age |-> { <<"4", "5", " ", "M", "a">>,
               <<"5", " ", "M", "a">>,
               <<"a", "b", "o", "u", "t", " ", "6", "0", "0", "M", "A">>,
               <<"0", ".", "5", " ", "m", "a">>,
               <<"u", "n", "k", "n", "o", "w", "n">> },
     reservoir_unit |-> {"Unit A", Undefined, ""},
     seal_unit |-> {Undefined, "Shale B"},
     facies |-> {"intrusive", "sandstone", "Deep_Marine",
                 "volcaniclastic sandstone"},
     thickness |-> {200, 40},
     trap_type |-> {"anticline", Undefined, "stratigraphic"},
     closure |-> {20, 8, 3},
     fault_seal |-> {"true", "false", Undefined},
     basin_seal |-> {"true", "false", Undefined},
     uplift_level |-> {"low", "High"},
     erosion_level |-> {"low", "Severe"},
     metamorphic_grade |-> {"greenschist", "Granulite"},
     weathering |-> {"moderate", "Deep"}]

\* The most fields in which a target of the model differs from BaseTarget.
MaxDeviations == 2

RECURSIVE Deviating(_)
Deviating(k) ==
    IF k = 0 THEN {BaseTarget}
    ELSE LET prev == Deviating(k - 1)
         IN  prev \cup
             UNION { UNION { {[t EXCEPT ![f] = v] : v \in FieldValues[f]} :
                             f \in DOMAIN FieldValues } :
                     t \in prev }

Targets == Deviating(MaxDeviations)

\* The names checkSpecificCondition is asked for: the taxonomy's and one more.
RequestedNames == TaxonomyNames \cup {"no_such_condition"}

-----------------------------------------------------------------------------
(* The veto engine as a state machine *)

\* The result a variable holds, once its operation has returned.
Veto == veto[1]
Specific == specific[1]

InitVeto ==
    /\ target \in Targets
    /\ veto = NoResult
    /\ specific = NoResult
    /\ prior = NoResult
    /\ likelihoods = NoResult
    /\ posterior = NoResult
    /\ evidence = NoEvidence
    /\ playbook = <<>>
    /\ call = NoResult
    /\ returned = NoResult

\* evaluateVeto(target)
EvaluateVeto ==
    /\ veto' = <<EvaluateVetoOf(target)>>
    /\ UNCHANGED <<target, specific, prior, likelihoods, posterior, evidence,
                   playbook, call, returned>>

\* checkSpecificCondition(conditionName, target)
CheckSpecificCondition ==
    \E conditionName \in RequestedNames :
        /\ specific' = <<CheckSpecificConditionOf(conditionName, target)>>
        /\ UNCHANGED <<target, veto, prior, likelihoods, posterior, evidence,
                       playbook, call, returned>>

NextVeto == EvaluateVeto \/ CheckSpecificCondition

SpecVeto == InitVeto /\ [][NextVeto]_vars

-----------------------------------------------------------------------------
(* The Bayesian fusion engine *)

\* correlation_threshold = 0.7, in hundredths
correlation_threshold == 70

Abs(x) == IF x < 0 THEN -x ELSE x

Max(a, b) == IF a >= b THEN a ELSE b

Min(a, b) == IF a <= b THEN a ELSE b

RECURSIVE Pow10(_)
Pow10(k) == IF k = 0 THEN 1 ELSE 10 * Pow10(k - 1)

\* floor(a * 10^k / b) by long division, one decimal digit at a time.
RECURSIVE Quotient(_, _, _)
Quotient(a, b, k) ==
    IF k = 0 THEN a \div b
    ELSE (a \div b) * Pow10(k) + Quotient((a % b) * 10, b, k - 1)

\* floor(sqrt(n)) by bisection; the root of a machine integer is below 46341.
RECURSIVE SqrtBetween(_, _, _)
SqrtBetween(n, lo, hi) ==
    IF lo >= hi THEN lo
    ELSE LET mid == (lo + hi + 1) \div 2
         IN  IF mid * mid <= n THEN SqrtBetween(n, mid, hi)
             ELSE SqrtBetween(n, lo, mid - 1)

Sqrt(n) == SqrtBetween(n, 0, 46340)

\* correlationMap[type1]?.[type2] || 0.2, in hundredths
CorrelationOf(type1, type2) ==
    CASE {type1, type2} = {"chemical", "structural"} /\ type1 # type2 -> 30
      [] {type1, type2} = {"chemical", "physical"} /\ type1 # type2 -> 50
      [] {type1, type2} = {"chemical", "surface"} /\ type1 # type2 -> 70
      [] {type1, type2} = {"structural", "physical"} /\ type1 # type2 -> 40
      [] {type1, type2} = {"structural", "surface"} /\ type1 # type2 -> 60
      [] {type1, type2} = {"physical", "surface"} /\ type1 # type2 -> 30
      [] OTHER -> 20

\* ComputeEvidenceCorrelationMatrix without the 1.0 of the diagonal, which is
\* left at the 0 the matrix is filled with.
ComputeMatrixWithoutDiagonal(evidenceTypes) ==
    [i \in 1..Len(evidenceTypes) |->
        [j \in 1..Len(evidenceTypes) |->
            IF i = j THEN 0
            ELSE CorrelationOf(evidenceTypes[i], evidenceTypes[j])]]

\* computeEvidenceCorrelationMatrix: 1.0 on the diagonal, the table elsewhere.
ComputeEvidenceCorrelationMatrix(evidenceTypes) ==
    [i \in 1..Len(evidenceTypes) |->
        [j \in 1..Len(evidenceTypes) |->
            IF i = j THEN 100
            ELSE CorrelationOf(evidenceTypes[i], evidenceTypes[j])]]

\* Math.max(...row.map(Math.abs)) of a row that holds its diagonal entry
RowMax(row) ==
    CHOOSE m \in {Abs(row[j]) : j \in 1..Len(row)} :
        \A j \in 1..Len(row) : Abs(row[j]) <= m

\* Object.keys(likelihoods)
KeysOf(liks) == [i \in 1..Len(liks) |-> liks[i].name]

\* Math.pow(mean, 1 / (1 + maxCorrelation)) on tenths.  The exponent lies
\* between 1/2 and 1 on the branch that uses it; the power is interpolated
\* between the square root and the mean itself.
PowPenalty(mean, maxCorrelation) ==
    LET root == Sqrt(mean * 10)
    IN  mean - ((mean - root) * Min(maxCorrelation, 100)) \div 100

\* ApplyIndependenceCorrection without the test against the threshold: the
\* penalty is applied to every likelihood.
ApplyPenaltyToAll(liks, correlationMatrix) ==
    [i \in 1..Len(liks) |->
        LET originalLikelihood == liks[i]
            maxCorrelation == RowMax(correlationMatrix[i]) - 100
        IN  [originalLikelihood EXCEPT
                !.mean = PowPenalty(originalLikelihood.mean, maxCorrelation),
                !.variance =
                    [n |-> originalLikelihood.variance.n * 100,
                     d |-> originalLikelihood.variance.d
                               * (100 + maxCorrelation)],
                !.adjustment_applied = "true",
                !.correlation_penalty = <<100, 100 + maxCorrelation>>]]

\* applyIndependenceCorrection
ApplyIndependenceCorrection(liks, correlationMatrix) ==
    [i \in 1..Len(liks) |->
        LET originalLikelihood == liks[i]
            maxCorrelation == RowMax(correlationMatrix[i]) - 100
        IN  IF maxCorrelation > correlation_threshold
            THEN [originalLikelihood EXCEPT
                    !.mean = PowPenalty(originalLikelihood.mean, maxCorrelation),
                    !.variance =
                        [n |-> originalLikelihood.variance.n * 100,
                         d |-> originalLikelihood.variance.d
                                   * (100 + maxCorrelation)],
                    !.adjustment_applied = "true",
                    !.correlation_penalty = <<100, 100 + maxCorrelation>>]
            ELSE originalLikelihood]

\* PropagateProductUncertainty without the product: var1 + var2.
AddVariances(var1, var2) ==
    [n |-> var1.n * var2.d + var2.n * var1.d,
     d |-> var1.d * var2.d]

\* propagateProductUncertainty: var1 * var2 + var1 + var2, on fractions
PropagateProductUncertainty(var1, var2) ==
    [n |-> var1.n * var2.n + var1.n * var2.d + var2.n * var1.d,
     d |-> var1.d * var2.d]

\* The loop of computePosteriorWithUncertainty over the corrected
\* likelihoods, for the variance.
RECURSIVE PropagateAll(_, _, _)
PropagateAll(variance, liks, i) ==
    IF i > Len(liks) THEN variance
    ELSE PropagateAll(PropagateProductUncertainty(variance, liks[i].variance),
                      liks, i + 1)

\* var1 * var2 + var1 + var2 is exact in double arithmetic when var1 or var2
\* is 0; otherwise the product and the sums are rounded.  The steps of the
\* loop that may round: those that meet a variance above 0 after the
\* running variance has risen above 0.
InexactSteps(pr, liks) ==
    LET above == {i \in 1..Len(liks) : liks[i].variance.n > 0}
    IN  IF pr.variance.n > 0 THEN above
        ELSE {i \in above : \E j \in above : j < i}

\* The posterior variance the loop leaves: the exact value of the nested
\* expression and the displacement its roundings add up to, in units in the
\* last place.
RoundedVariance(exact, inexact, roundingError) ==
    [n |-> exact.n,
     d |-> exact.d,
     ulps |-> IF inexact = {} THEN 0 ELSE roundingError]

\* contributions[name] = likelihood.mean, in insertion order
Contributions(liks) ==
    [i \in 1..Len(liks) |-> [name |-> liks[i].name, mean |-> liks[i].mean]]

\* prior.mean times every likelihood mean, in units of 1 / (1000 * 10^n)
\* for n likelihoods.
RECURSIVE ProductOfMeans(_, _, _)
ProductOfMeans(z, liks, i) ==
    IF i > Len(liks) THEN z ELSE ProductOfMeans(z * liks[i].mean, liks, i + 1)

\* The denominator of those units.
UnitsPerOne(liks) == 1000 * Pow10(Len(liks))

\* computeNormalizationConstant: the product, floored at 0.001
ComputeNormalizationConstant(pr, liks) ==
    Max(ProductOfMeans(pr.mean, liks, 1), UnitsPerOne(liks) \div 1000)

\* Math.exp(Math.log(prior.mean) + sum of Math.log(likelihood.mean)).
\* Math.log and Math.exp return the nearest double their implementation
\* finds, not the real number: the sum of logarithms, exponentiated, is the
\* product displaced by a rounding error of a unit or so in the last place,
\* in either direction (Math.exp(Math.log(0.1)) is 0.10000000000000002).  Math.log(0) is -Infinity and Math.exp(-Infinity)
\* is exactly 0.  The result is the exact product and its displacement.
ExpOfLogSum(pr, liks, roundingError) ==
    LET product == ProductOfMeans(pr.mean, liks, 1)
    IN  [exact |-> product,
         ulps |-> IF product = 0 THEN 0 ELSE roundingError]

\* posteriorMean / Z, in ten-thousandths.  The quotient carries the relative
\* displacement of its numerator; one ten-thousandth stands for the unit in
\* the last place.
Normalize(posteriorMean, Z) ==
    LET quotient == Quotient(posteriorMean.exact, Z, 4)
    IN  IF quotient = 0 THEN 0 ELSE quotient + posteriorMean.ulps

\* The rounding errors of Math.exp over Math.log, and of the products and
\* sums of the variance, in units in the last place.
RoundingErrors == {-1, 0, 1}

\* ClassifyConfidence without the signal-to-noise tests.
ClassifyByMeanAlone(mean, variance) ==
    IF mean < 500 THEN "NOISE"
    ELSE IF mean < 1500 THEN "RECON"
    ELSE IF mean < 3500 THEN "PROSPECT"
    ELSE IF mean < 6500 THEN "PRIORITY"
    ELSE "DRILL_JUSTIFIED"

\* classifyConfidence: signalToNoise = mean / sqrt(variance).  With mean and
\* the root both in ten-thousandths, signalToNoise < k is mean < k * root;
\* a zero variance makes the ratio Infinity or NaN, below no k.
ClassifyConfidence(mean, variance) ==
    LET uncertainty == Sqrt(Quotient(variance.n, variance.d, 8))
        snrBelow(k) == uncertainty > 0 /\ mean < k * uncertainty
    IN  IF mean < 500 \/ snrBelow(1) THEN "NOISE"
        ELSE IF mean < 1500 \/ snrBelow(2) THEN "RECON"
        ELSE IF mean < 3500 \/ snrBelow(3) THEN "PROSPECT"
        ELSE IF mean < 6500 \/ snrBelow(4) THEN "PRIORITY"
        ELSE "DRILL_JUSTIFIED"

\* getZScore, in thousandths; confidence in hundredths
GetZScore(confidence) ==
    CASE confidence = 90 -> 1645
      [] confidence = 95 -> 1960
      [] confidence = 99 -> 2576
      [] OTHER -> 1960

\* computeCredibleInterval
ComputeCredibleInterval(mean, variance, confidence) ==
    LET stdDev == Sqrt(Quotient(variance.n, variance.d, 8))
        zScore == GetZScore(confidence)
        lower == Max(0, mean - (zScore * stdDev) \div 1000)
        upper == Min(10000, mean + (zScore * stdDev) \div 1000)
    IN  <<lower, upper>>

\* Steps 2 to 6 of computePosteriorWithUncertainty: the fusion of a prior
\* with likelihoods the veto let through.  roundingError holds the rounding
\* error of the mean and that of the variance.  The signal-to-noise ratio
\* and the credible interval read the variance to eight decimal places,
\* which a unit in the last place does not reach.
FusePosterior(pr, liks, roundingError) ==
    LET correlationMatrix == ComputeEvidenceCorrelationMatrix(KeysOf(liks))
        correctedLikelihoods ==
            ApplyIndependenceCorrection(liks, correlationMatrix)
        posteriorVariance ==
            RoundedVariance(
                PropagateAll(pr.variance, correctedLikelihoods, 1),
                InexactSteps(pr, correctedLikelihoods),
                roundingError.variance)
        posteriorMean ==
            ExpOfLogSum(pr, correctedLikelihoods, roundingError.mean)
        Z == ComputeNormalizationConstant(pr, correctedLikelihoods)
        normalizedMean == Normalize(posteriorMean, Z)
    IN  [mean |-> normalizedMean,
         variance |-> posteriorVariance,
         confidence_class |-> ClassifyConfidence(normalizedMean, posteriorVariance),
         uncertainty_bounds |->
             ComputeCredibleInterval(normalizedMean, posteriorVariance, 95),
         likelihood_contributions |-> Contributions(correctedLikelihoods),
         veto_reason |-> Undefined,
         normalization_constant |->
             [n |-> Z, d |-> UnitsPerOne(correctedLikelihoods)]]

\* computePosteriorWithUncertainty without its first step: the veto result
\* is not looked at.
ComputePosteriorIgnoringVeto(pr, liks, vetoResult, roundingError) ==
    FusePosterior(pr, liks, roundingError)

\* computePosteriorWithUncertainty
ComputePosteriorWithUncertaintyOf(pr, liks, vetoResult, roundingError) ==
    IF ~vetoResult.passed
    THEN [mean |-> 0,
          variance |-> [n |-> 0, d |-> 1],
          confidence_class |-> "NOISE",
          uncertainty_bounds |-> <<0, 0>>,
          likelihood_contributions |-> <<>>,
          veto_reason |-> vetoResult.failure_reason,
          normalization_constant |-> [n |-> 0, d |-> 1]]
    ELSE FusePosterior(pr, liks, roundingError)

-----------------------------------------------------------------------------
(* The fusion engine as a state machine *)

\* A target no condition rejects, one a blocking condition rejects, and one
\* whose only negative verdict is below its condition's required confidence.
FusionTargets ==
    {BaseTarget,
     [BaseTarget EXCEPT !.metamorphic_grade = "Granulite"],
     [BaseTarget EXCEPT !.tectonic_setting = "Collisional"]}

\* Prior means in thousandths: the floor 0.01, 0.1 and the ceiling 0.3.
PriorMeans == {10, 100, 300}

\* Prior variances in hundredths.
PriorVariances == {0, 6, 100}

Priors ==
    {[mean |-> m, variance |-> [n |-> v, d |-> 100]] :
        m \in PriorMeans, v \in PriorVariances}

\* The keys of the likelihoods record: two evidence types of the correlation
\* table and a key outside it.
EvidenceNames == {"chemical", "surface", "gravity"}

\* <<mean in tenths, variance in hundredths>> of a likelihood: a zero mean,
\* a mean below 1, one above 1, and a large mean with a large variance.
LikelihoodValues == {<<0, 0>>, <<5, 1>>, <<15, 25>>, <<50, 100>>}

\* The most likelihoods handed to the fusion engine.
MaxLikelihoods == 2

Likelihood(name, value) ==
    [name |-> name,
     mean |-> value[1],
     variance |-> [n |-> value[2], d |-> 100],
     adjustment_applied |-> Undefined,
     correlation_penalty |-> Undefined]

\* The likelihoods records of at most k keys, as sequences in insertion
\* order.
RECURSIVE LikelihoodsUpTo(_)
LikelihoodsUpTo(k) ==
    IF k = 0 THEN {<<>>}
    ELSE LET prev == LikelihoodsUpTo(k - 1)
         IN  prev \cup
             UNION { {Append(l, Likelihood(name, value)) :
                         name \in EvidenceNames \ {l[i].name : i \in 1..Len(l)},
                         value \in LikelihoodValues} :
                     l \in {q \in prev : Len(q) = k - 1} }

Posterior == posterior[1]

\* The rounding errors a fusion of pr with liks can meet: none in the mean
\* when the product is exactly 0, none in the variance when no step of its
\* loop rounds.
RoundingErrorsOf(pr, liks) ==
    [mean : IF ProductOfMeans(pr.mean, liks, 1) = 0 THEN {0}
            ELSE RoundingErrors,
     variance : IF InexactSteps(pr, liks) = {} THEN {0}
                ELSE RoundingErrors]

InitFusion ==
    /\ target \in FusionTargets
    /\ veto = NoResult
    /\ specific = NoResult
    /\ prior \in Priors
    /\ likelihoods \in LikelihoodsUpTo(MaxLikelihoods)
    /\ posterior = NoResult
    /\ evidence = NoEvidence
    /\ playbook = <<>>
    /\ call = NoResult
    /\ returned = NoResult

\* computePosteriorWithUncertainty(prior, likelihoods, vetoResult), on the
\* result evaluateVeto returned for the target.
ComputePosteriorWithUncertainty ==
    /\ veto # NoResult
    /\ \E roundingError \in RoundingErrorsOf(prior, likelihoods) :
        posterior' = <<ComputePosteriorWithUncertaintyOf(
                          prior, likelihoods, Veto, roundingError)>>
    /\ UNCHANGED <<target, veto, specific, prior, likelihoods, evidence,
                   playbook, call, returned>>

NextFusion == EvaluateVeto \/ ComputePosteriorWithUncertainty

SpecFusion == InitFusion /\ [][NextFusion]_vars

-----------------------------------------------------------------------------
(* The copper porphyry playbook *)

\* this.mandatory_conditions, in the order Object.entries visits it
mandatory_conditions ==
    << [name |-> "tectonic_setting", check |-> "checkArcTectonicSetting"],
       [name |-> "alteration_assemblage",
        check |-> "checkPotassicPhyllicAlteration"],
       [name |-> "intrusive_geometry",
        check |-> "checkIntrusiveCenteredStructure"] >>

\* this.supportive_evidence, in insertion order
supportive_evidence ==
    << "checkMagneticDestruction", "checkDensityContrasts",
       "checkAlterationZoning", "checkStructuralControl",
       "checkGeochemicalAnomaly" >>

\* this.kill_factors with this.kill_factor_descriptions, in insertion order
kill_factors ==
    << [factor |-> "no_alteration_zoning", check |-> "checkNoAlterationZoning",
        description |-> "No systematic alteration zoning present"],
       [factor |-> "no_intrusive_geometry",
        check |-> "checkNoIntrusiveGeometry",
        description |-> "No intrusive-centered structural geometry"],
       [factor |-> "wrong_age", check |-> "checkWrongAge",
        description |-> "Age incompatible with porphyry formation"],
       [factor |-> "no_arc_setting", check |-> "checkNoArcSetting",
        description |-> "Not in arc tectonic setting"] >>

\* this.likelihood_weights of the copper porphyry playbook, in hundredths
likelihood_weights ==
    [chemical |-> 35, structural |-> 30, physical |-> 25, surface |-> 10]

\* extractEvidence
ExtractEvidence(t, ev) ==
    [tectonic_setting |-> t.tectonic_setting,
     age |-> t.age,
     chemical_evidence |-> ev.chemical,
     structural_evidence |-> ev.structural,
     physical_evidence |-> ev.physical]

\* items.flatMap(e => e[field] || [])
RECURSIVE FlatMap(_, _)
FlatMap(items, field) ==
    IF items = <<>> THEN <<>>
    ELSE items[1][field] \o FlatMap(Tail(items), field)

\* tectonic.toLowerCase().includes(term) for some term
SomeTermIn(terms, tectonic) ==
    \E term \in terms : StrIncludes(ToLowerCase(tectonic), term)

\* checkArcTectonicSetting
CheckArcTectonicSetting(e) ==
    LET tectonic == e.tectonic_setting
        isArc == SomeTermIn({"arc", "subduction", "andesitic", "calc-alkaline",
                             "continental_arc", "island_arc"}, tectonic)
    IN  [passed |-> isArc,
         value |-> tectonic,
         threshold |-> "arc-related setting",
         certainty |-> 90,
         failure_reason |->
             IF isArc THEN Undefined ELSE "Not in arc tectonic setting"]

\* checkPotassicPhyllicAlteration
CheckPotassicPhyllicAlteration(e) ==
    LET alterationAssemblages ==
            FlatMap(e.chemical_evidence, "alteration_assemblages")
        hasType(type) ==
            \E i \in 1..Len(alterationAssemblages) :
                alterationAssemblages[i].alteration_type = type
        minerals == FlatMap(e.chemical_evidence, "mineral_detections")
        hasMineral(id) ==
            \E i \in 1..Len(minerals) : minerals[i].mineral_id = id
        potassicPresent ==
            hasType("potassic") \/ (hasMineral("K-feldspar") /\ hasMineral("biotite"))
        phyllicPresent == hasType("phyllic") \/ hasMineral("sericite")
        passed == potassicPresent /\ phyllicPresent
    IN  [passed |-> passed,
         value |-> [potassic |-> potassicPresent, phyllic |-> phyllicPresent],
         threshold |-> "both potassic and phyllic alteration present",
         certainty |-> 80,
         failure_reason |->
             IF passed THEN Undefined
             ELSE "Missing potassic or phyllic alteration"]

\* checkIntrusiveCenteredStructure; circular_variance is in hundredths
CheckIntrusiveCenteredStructure(e) ==
    LET structural == e.structural_evidence
        hasCircularPattern ==
            \E i \in 1..Len(structural) :
                /\ structural[i].lineament_density > 5
                /\ structural[i].circular_variance < 50
        hasIntrusiveIndicators ==
            \E i \in 1..Len(structural) :
                structural[i].fault_type \in {"radial", "circular"}
        passed == hasCircularPattern \/ hasIntrusiveIndicators
    IN  [passed |-> passed,
         value |-> [circular_pattern |-> hasCircularPattern,
                    intrusive_indicators |-> hasIntrusiveIndicators],
         threshold |-> "intrusive-centered structural geometry",
         certainty |-> 70,
         failure_reason |->
             IF passed THEN Undefined
             ELSE "No intrusive-centered structural pattern"]

RunMandatory(check, e) ==
    CASE check = "checkArcTectonicSetting" -> CheckArcTectonicSetting(e)
      [] check = "checkPotassicPhyllicAlteration" ->
            CheckPotassicPhyllicAlteration(e)
      [] check = "checkIntrusiveCenteredStructure" ->
            CheckIntrusiveCenteredStructure(e)

\* checkMagneticDestruction: Math.min(1.0, n / 3)
CheckMagneticDestruction(e) ==
    LET negative(p) == p.residual_anomaly < -50
        n == Len(SelectSeq(e.physical_evidence, negative))
    IN  [evidence_type |-> "magnetic_destruction",
         strength |-> Min(30, 10 * n),
         description |->
             "Magnetic destruction signature: " \o ToString(n)
                 \o " negative anomalies",
         data_sources |-> <<"magnetic surveys", "aeromagnetic data">>]

\* checkDensityContrasts: Math.min(1.0, n / 2)
CheckDensityContrasts(e) ==
    LET significant(p) == Abs(p.residual_anomaly) > 10
        n == Len(SelectSeq(e.physical_evidence, significant))
    IN  [evidence_type |-> "density_contrasts",
         strength |-> Min(30, 15 * n),
         description |->
             "Density contrasts: " \o ToString(n)
                 \o " significant gravity anomalies",
         data_sources |-> <<"gravity surveys", "density measurements">>]

\* checkAlterationZoning
CheckAlterationZoning(e) ==
    LET systematic(a) == a.zoning_pattern \in {"concentric", "linear"}
        n == Len(SelectSeq(
                     FlatMap(e.chemical_evidence, "alteration_assemblages"),
                     systematic))
    IN  [evidence_type |-> "alteration_zoning",
         strength |-> Min(30, 15 * n),
         description |->
             "Alteration zoning: " \o ToString(n) \o " systematic patterns",
         data_sources |-> <<"hyperspectral analysis", "alteration mapping">>]

\* checkStructuralControl
CheckStructuralControl(e) ==
    LET controlling(x) == x.relationship_to_mineralization = "controlling"
        n == Len(SelectSeq(e.structural_evidence, controlling))
    IN  [evidence_type |-> "structural_control",
         strength |-> Min(30, 15 * n),
         description |->
             "Structural control: " \o ToString(n) \o " controlling structures",
         data_sources |-> <<"structural analysis", "field mapping">>]

\* `${flag}` for a boolean
BoolText(flag) == IF flag THEN "true" ELSE "false"

\* checkGeochemicalAnomaly.  hasCopperAnomaly is Math.random() > 0.5 and
\* hasPathfinderElements is Math.random() > 0.6: each call draws both anew.
CheckGeochemicalAnomaly(e, hasCopperAnomaly, hasPathfinderElements) ==
    [evidence_type |-> "geochemical_anomaly",
     strength |-> (IF hasCopperAnomaly THEN 18 ELSE 0)
                      + (IF hasPathfinderElements THEN 12 ELSE 0),
     description |->
         "Geochemical anomaly: Cu=" \o BoolText(hasCopperAnomaly)
             \o ", pathfinders=" \o BoolText(hasPathfinderElements),
     data_sources |->
         <<"soil sampling", "rock chip sampling", "stream sediments">>]

RunSupportive(check, e, hasCopperAnomaly, hasPathfinderElements) ==
    CASE check = "checkMagneticDestruction" -> CheckMagneticDestruction(e)
      [] check = "checkDensityContrasts" -> CheckDensityContrasts(e)
      [] check = "checkAlterationZoning" -> CheckAlterationZoning(e)
      [] check = "checkStructuralControl" -> CheckStructuralControl(e)
      [] check = "checkGeochemicalAnomaly" ->
            CheckGeochemicalAnomaly(e, hasCopperAnomaly, hasPathfinderElements)

\* checkNoAlterationZoning
CheckNoAlterationZoning(e) ==
    LET alterationAssemblages ==
            FlatMap(e.chemical_evidence, "alteration_assemblages")
        hasZoning ==
            \E i \in 1..Len(alterationAssemblages) :
                alterationAssemblages[i].zoning_pattern \notin {"none", "random"}
    IN  ~hasZoning

\* The keys and the string values of JSON.stringify(s) for an item of the
\* structural evidence.  A term of letters lies within one of them if it
\* lies in the text at all.
JsonWords(x) ==
    {"lineament_density", "orientation_distribution", "circular_variance",
     "fault_type", "relationship_to_mineralization",
     x.fault_type, x.relationship_to_mineralization}

\* checkNoIntrusiveGeometry
CheckNoIntrusiveGeometry(e) ==
    LET structural == e.structural_evidence
        intrusiveTerms ==
            {"stock", "dike", "pluton", "intrusive", "batholith", "circular"}
        hasIntrusive ==
            \E i \in 1..Len(structural) :
                \E term \in intrusiveTerms :
                    \E word \in JsonWords(structural[i]) :
                        StrIncludes(ToLowerCase(word), term)
    IN  ~hasIntrusive

\* checkWrongAge: ageMa < 1 || ageMa > 100, on tenths
CheckWrongAge(e) ==
    LET ageMa == PlaybookParseAge(e.age)
    IN  ageMa < 10 \/ ageMa > 1000

\* checkNoArcSetting
CheckNoArcSetting(e) ==
    ~SomeTermIn({"arc", "subduction", "andesitic", "calc-alkaline"},
                e.tectonic_setting)

RunKillFactor(check, e) ==
    CASE check = "checkNoAlterationZoning" -> CheckNoAlterationZoning(e)
      [] check = "checkNoIntrusiveGeometry" -> CheckNoIntrusiveGeometry(e)
      [] check = "checkWrongAge" -> CheckWrongAge(e)
      [] check = "checkNoArcSetting" -> CheckNoArcSetting(e)

\* The loop of evaluateMandatoryConditions from the i-th condition on, with
\* the details recorded so far.
RECURSIVE EvaluateMandatoryFrom(_, _, _)
EvaluateMandatoryFrom(i, results, e) ==
    IF i > Len(mandatory_conditions)
    THEN [all_passed |-> TRUE,
          failed_condition |-> Undefined,
          failure_details |-> Undefined,
          triggers_veto |-> FALSE,
          condition_details |-> results]
    ELSE LET conditionName == mandatory_conditions[i].name
             result == RunMandatory(mandatory_conditions[i].check, e)
             recorded ==
                 Append(results, [name |-> conditionName,
                                  passed |-> result.passed,
                                  value |-> result.value,
                                  threshold |-> result.threshold,
                                  certainty |-> result.certainty])
         IN  IF ~result.passed
             THEN [all_passed |-> FALSE,
                   failed_condition |-> conditionName,
                   failure_details |-> result.failure_reason,
                   triggers_veto |-> TRUE,
                   condition_details |-> recorded]
             ELSE EvaluateMandatoryFrom(i + 1, recorded, e)

\* EvaluateMandatoryConditions without the return inside the loop: the first
\* condition is passed over.
EvaluateMandatoryFromSecond(e) == EvaluateMandatoryFrom(2, <<>>, e)

\* evaluateMandatoryConditions
EvaluateMandatoryConditions(e) == EvaluateMandatoryFrom(1, <<>>, e)

\* checkKillFactors; the certainty of a kill factor is 0.8
CheckKillFactors(e) ==
    LET triggered(k) == RunKillFactor(k.check, e)
        killFactorsTriggered ==
            [i \in 1..Len(SelectSeq(kill_factors, triggered)) |->
                [factor |-> SelectSeq(kill_factors, triggered)[i].factor,
                 description |->
                     SelectSeq(kill_factors, triggered)[i].description,
                 certainty |-> 80]]
    IN  [killed |-> Len(killFactorsTriggered) > 0,
         kill_factors |-> killFactorsTriggered,
         requires_veto |-> Len(killFactorsTriggered) > 0]

\* Array.prototype.sort((a, b) => b.strength - a.strength): stable, by
\* descending strength.
RECURSIVE InsertByStrength(_, _)
InsertByStrength(sorted, x) ==
    IF sorted = <<>> THEN <<x>>
    ELSE IF sorted[1].strength >= x.strength
         THEN <<sorted[1]>> \o InsertByStrength(Tail(sorted), x)
         ELSE <<x>> \o sorted

RECURSIVE SortByStrength(_, _)
SortByStrength(items, i) ==
    IF i = 0 THEN <<>>
    ELSE InsertByStrength(SortByStrength(items, i - 1), items[i])

\* RetainMeaningful without the test of the strength: every result is pushed.
RetainEveryResult(results) == SortByStrength(results, Len(results))

\* The loop and the sort of evaluateSupportiveEvidence, for the results the
\* evidence functions returned: those of strength above 0.1, sorted.
RetainMeaningful(results) ==
    LET meaningful(result) == result.strength > 3
        supportiveEvidence == SelectSeq(results, meaningful)
    IN  SortByStrength(supportiveEvidence, Len(supportiveEvidence))

\* evaluateSupportiveEvidence: the results of strength above 0.1, sorted
EvaluateSupportiveEvidence(e, hasCopperAnomaly, hasPathfinderElements) ==
    RetainMeaningful(
        [i \in 1..Len(supportive_evidence) |->
            RunSupportive(supportive_evidence[i], e, hasCopperAnomaly,
                          hasPathfinderElements)])

\* supportive.reduce((sum, s) => sum + s.strength, 0)
RECURSIVE SumOfStrengths(_, _)
SumOfStrengths(supportive, i) ==
    IF i = 0 THEN 0
    ELSE SumOfStrengths(supportive, i - 1) + supportive[i].strength

\* GenerateOverallAssessment without its first test: a failed mandatory
\* condition or a kill factor no longer decides the call.
GenerateAssessmentFromSupportAlone(mandatory, killFactors, supportive) ==
    LET totalSupportiveStrength == SumOfStrengths(supportive, Len(supportive))
        strong(x) == x.strength > 21
        strongSupportiveCount == Len(SelectSeq(supportive, strong))
    IN  IF totalSupportiveStrength > 60 /\ strongSupportiveCount >= 2
        THEN "favorable"
        ELSE IF totalSupportiveStrength > 30 /\ strongSupportiveCount >= 1
             THEN "marginal"
        ELSE "unfavorable"

\* generateOverallAssessment
GenerateOverallAssessment(mandatory, killFactors, supportive) ==
    LET totalSupportiveStrength == SumOfStrengths(supportive, Len(supportive))
        strong(x) == x.strength > 21
        strongSupportiveCount == Len(SelectSeq(supportive, strong))
    IN  IF ~mandatory.all_passed \/ killFactors.killed THEN "unfavorable"
        ELSE IF totalSupportiveStrength > 60 /\ strongSupportiveCount >= 2
             THEN "favorable"
        ELSE IF totalSupportiveStrength > 30 /\ strongSupportiveCount >= 1
             THEN "marginal"
        ELSE "unfavorable"

RECURSIVE SumOfCertainties(_, _)
SumOfCertainties(details, i) ==
    IF i = 0 THEN 0
    ELSE SumOfCertainties(details, i - 1) + details[i].certainty

\* calculateConfidence: min(1.0, avgCertainty * 0.6 + supportiveWeight * 0.4)
\* with avgCertainty = c / (100 k) over the k details and supportiveWeight
\* = s / (30 l) over max(length, 1) = l items, as one fraction.
CalculateConfidence(mandatory, killFactors, supportive) ==
    IF ~mandatory.all_passed \/ killFactors.killed THEN [n |-> 9, d |-> 10]
    ELSE LET details == mandatory.condition_details
             c == SumOfCertainties(details, Len(details))
             k == Len(details)
             s == SumOfStrengths(supportive, Len(supportive))
             l == Max(Len(supportive), 1)
             n == 18 * c * l + 40 * s * k
             d == 3000 * k * l
         IN  IF n > d THEN [n |-> 1, d |-> 1] ELSE [n |-> n, d |-> d]

\* generateRecommendations
GenerateRecommendations(mandatory, killFactors, supportive, assessment) ==
    LET strong(x) == x.strength > 21
        weak(x) == x.strength < 9
        byAssessment ==
            IF assessment = "favorable"
            THEN << "Strong candidate for drilling - high priority",
                    "Focus on defining alteration zoning and structural controls",
                    "Consider detailed geophysical surveys to define intrusion geometry" >>
            ELSE IF assessment = "marginal"
            THEN << "Additional data required before drilling consideration",
                    "Focus on improving alteration mapping and structural analysis",
                    "Consider targeted geochemical sampling" >>
            ELSE << "Not recommended for drilling at this time" >>
                 \o (IF ~mandatory.all_passed
                     THEN << "Address failed mandatory conditions first" >>
                     ELSE <<>>)
                 \o (IF killFactors.killed
                     THEN << "Kill factors indicate geological impossibility" >>
                     ELSE <<>>)
    IN  byAssessment
            \o (IF Len(SelectSeq(supportive, weak)) > Len(SelectSeq(supportive, strong))
                THEN << "Strengthen data acquisition for weak evidence categories" >>
                ELSE <<>>)

\* `Failed mandatory condition: ${mandatory.failed_condition}`
FailedMandatoryRisk(failed_condition) ==
    "Failed mandatory condition: " \o failed_condition

\* identifyRiskFactors
IdentifyRiskFactors(mandatory, killFactors, supportive) ==
    LET weak(x) == x.strength < 9
    IN  (IF ~mandatory.all_passed /\ Truthy(mandatory.failed_condition)
         THEN << FailedMandatoryRisk(mandatory.failed_condition) >>
         ELSE <<>>)
        \o [i \in 1..Len(killFactors.kill_factors) |->
               killFactors.kill_factors[i].description]
        \o (IF 2 * Len(SelectSeq(supportive, weak)) > Len(supportive)
            THEN << "Limited supportive evidence" >>
            ELSE <<>>)

\* evaluatePlaybook of the copper porphyry playbook, with the two draws of
\* Math.random its call of checkGeochemicalAnomaly makes.
EvaluatePlaybookOf(t, ev, hasCopperAnomaly, hasPathfinderElements) ==
    LET e == ExtractEvidence(t, ev)
        mandatoryResult == EvaluateMandatoryConditions(e)
        killFactorResult == CheckKillFactors(e)
        supportiveEvidence ==
            EvaluateSupportiveEvidence(e, hasCopperAnomaly,
                                       hasPathfinderElements)
        overallAssessment ==
            GenerateOverallAssessment(mandatoryResult, killFactorResult,
                                      supportiveEvidence)
    IN  [commodity |-> "copper_porphyry",
         mandatory_result |-> mandatoryResult,
         kill_factor_result |-> killFactorResult,
         supportive_evidence |-> supportiveEvidence,
         likelihood_weights |-> likelihood_weights,
         overall_assessment |-> overallAssessment,
         confidence |->
             CalculateConfidence(mandatoryResult, killFactorResult,
                                 supportiveEvidence),
         recommendations |->
             GenerateRecommendations(mandatoryResult, killFactorResult,
                                     supportiveEvidence, overallAssessment),
         risk_factors |->
             IdentifyRiskFactors(mandatoryResult, killFactorResult,
                                 supportiveEvidence)]

-----------------------------------------------------------------------------
(* The playbook as a state machine *)

\* Targets in and out of an arc setting, of an age within, beyond and
\* without the reading of the playbook.
PlaybookTargets ==
    {[BaseTarget EXCEPT !.tectonic_setting = setting, !.age = age] :
        setting \in {"continental_arc", "rift"},
        age \in { <<"4", "5", " ", "M", "a">>,
                  <<"a", "b", "o", "u", "t", " ", "6", "0", "0", "M", "A">>,
                  <<"u", "n", "k", "n", "o", "w", "n">> }}

Assemblage(type, pattern) ==
    [alteration_type |-> type, zoning_pattern |-> pattern]

Detection(id) == [mineral_id |-> id]

\* target.evidence.chemical: nothing; potassic and phyllic assemblages, both
\* zoned; one zoned assemblage and sericite; an unzoned assemblage and
\* sericite; no phyllic alteration.
ChemicalEvidence ==
    { <<>>,
      << [alteration_assemblages |->
              << Assemblage("potassic", "concentric"),
                 Assemblage("phyllic", "linear") >>,
          mineral_detections |-> <<>>] >>,
      << [alteration_assemblages |->
              << Assemblage("potassic", "concentric") >>,
          mineral_detections |-> << Detection("sericite") >>] >>,
      << [alteration_assemblages |-> << Assemblage("potassic", "none") >>,
          mineral_detections |-> << Detection("sericite") >>] >>,
      << [alteration_assemblages |-> << Assemblage("propylitic", "random") >>,
          mineral_detections |->
              << Detection("K-feldspar"), Detection("biotite") >>] >> }

Structure(density, variance, fault, relationship) ==
    [lineament_density |-> density,
     circular_variance |-> variance,
     fault_type |-> fault,
     relationship_to_mineralization |-> relationship]

\* target.evidence.structural: nothing; one organised, controlling
\* structure; two controlling structures, one radial; one sparse,
\* disorganised structure.
StructuralEvidence ==
    { <<>>,
      << Structure(8, 30, "normal", "controlling") >>,
      << Structure(8, 30, "normal", "controlling"),
         Structure(3, 80, "radial", "controlling") >>,
      << Structure(2, 80, "normal", "none") >> }

Anomaly(residual) == [residual_anomaly |-> residual]

\* target.evidence.physical
PhysicalEvidence ==
    { <<>>,
      << Anomaly(-60) >>,
      << Anomaly(-60), Anomaly(-70), Anomaly(-80) >>,
      << Anomaly(15), Anomaly(5) >> }

\* The most calls of evaluatePlaybook on one target.
MaxEvaluations == 2

InitPlaybook ==
    /\ target \in PlaybookTargets
    /\ evidence \in [chemical : ChemicalEvidence,
                     structural : StructuralEvidence,
                     physical : PhysicalEvidence]
    /\ playbook = <<>>
    /\ call = NoResult
    /\ returned = NoResult
    /\ veto = NoResult
    /\ specific = NoResult
    /\ prior = NoResult
    /\ likelihoods = NoResult
    /\ posterior = NoResult

\* evaluatePlaybook(target)
EvaluatePlaybook ==
    /\ Len(playbook) < MaxEvaluations
    /\ \E hasCopperAnomaly \in BOOLEAN, hasPathfinderElements \in BOOLEAN :
        playbook' = Append(playbook,
                           EvaluatePlaybookOf(target, evidence,
                                              hasCopperAnomaly,
                                              hasPathfinderElements))
    /\ UNCHANGED <<target, veto, specific, prior, likelihoods, posterior,
                   evidence, call, returned>>

NextPlaybook == EvaluatePlaybook

SpecPlaybook == InitPlaybook /\ [][NextPlaybook]_vars

(***************************************************************************)
(* The assessment of a playbook on its own.  CommodityPlaybook is          *)
(* abstract: the evidence functions of a playbook may return any strength  *)
(* from 0 to 1.  Here evaluatePlaybook's steps from the supportive         *)
(* evidence to the overall assessment run on the results such functions    *)
(* return, for a given outcome of the mandatory conditions and of the kill *)
(* factors.  Strengths are thirtieths: 0, 0.1, 0.3, 0.7, 0.8 and 1.0.      *)
(***************************************************************************)
Strengths == {0, 3, 9, 21, 24, 30}

\* The most evidence functions of a playbook.
MaxSupportive == 4

RECURSIVE SeqsUpTo(_, _)
SeqsUpTo(S, k) ==
    IF k = 0 THEN {<<>>}
    ELSE LET shorter == SeqsUpTo(S, k - 1)
         IN  shorter \cup {Append(q, x) : q \in shorter, x \in S}

SupportiveResults ==
    SeqsUpTo({[strength |-> x] : x \in Strengths}, MaxSupportive)

InitAssessment ==
    /\ call \in [results : SupportiveResults,
                 mandatory : [all_passed : BOOLEAN],
                 killFactors : [killed : BOOLEAN]]
    /\ returned = NoResult
    /\ target = NoResult
    /\ evidence = NoResult
    /\ playbook = <<>>
    /\ veto = NoResult
    /\ specific = NoResult
    /\ prior = NoResult
    /\ likelihoods = NoResult
    /\ posterior = NoResult

\* evaluatePlaybook, lines 161-168: the supportive evidence, then the
\* overall assessment.
AssessPlaybook ==
    /\ returned = NoResult
    /\ returned' = <<GenerateOverallAssessment(
                         call.mandatory, call.killFactors,
                         RetainMeaningful(call.results))>>
    /\ UNCHANGED <<target, veto, specific, prior, likelihoods, posterior,
                   evidence, playbook, call>>

NextAssessment == AssessPlaybook

SpecAssessment == InitAssessment /\ [][NextAssessment]_vars

(***************************************************************************)
(* The probability collapse detector (ProbabilityCollapseDetector).        *)
(* Numbers are fixed-point: a prior is in ten-thousandths, a likelihood in *)
(* twentieths (0.25 is 5, 1.0 is 20), an uncertainty in hundredths;        *)
(* uncertainty_reduction is in hundredths, convergence_score in            *)
(* thousandths and collapse_strength in hundredths, each rounded down      *)
(* where the code rounds to the nearest double.                            *)
(***************************************************************************)

\* SUPPORTIVE_THRESHOLD = 1.0, in twentieths
SUPPORTIVE_THRESHOLD == 20

\* UNCERTAINTY_REDUCTION_THRESHOLD = 0.7, in hundredths
UNCERTAINTY_REDUCTION_THRESHOLD == 70

\* CONVERGENCE_THRESHOLD = 0.8, in thousandths
CONVERGENCE_THRESHOLD == 800

MIN_SUPPORTIVE_LIKELIHOODS == 2

RECURSIVE SumOf(_)
SumOf(s) == IF s = <<>> THEN 0 ELSE Head(s) + SumOf(Tail(s))

RECURSIVE ProductOf(_)
ProductOf(s) == IF s = <<>> THEN 1 ELSE Head(s) * ProductOf(Tail(s))

\* b^n <= x for b > 0, by division, so that no power leaves the machine
\* integers.
RECURSIVE PowerAtMost(_, _, _)
PowerAtMost(b, n, x) ==
    IF n = 0 THEN 1 <= x ELSE PowerAtMost(b, n - 1, x \div b)

\* floor of the n-th root of x by bisection (Math.pow(x, 1 / n)).
RECURSIVE RootBetween(_, _, _, _)
RootBetween(x, n, lo, hi) ==
    IF lo >= hi THEN lo
    ELSE LET mid == (lo + hi + 1) \div 2
         IN  IF PowerAtMost(mid, n, x) THEN RootBetween(x, n, mid, hi)
             ELSE RootBetween(x, n, lo, mid - 1)

\* Math.log(L / (1 - L)) in thousandths, for L = 0.05, 0.10, ..., 0.95.  The
\* log odds of L and of 1 - L are opposite numbers.
LogOddsOfTwentieths ==
    <<-2944, -2197, -1735, -1386, -1099, -847, -619, -405, -201, 0,
      201, 405, 619, 847, 1099, 1386, 1735, 2197, 2944>>

\* LogOdds without the logarithm: every likelihood counts as even odds.
LogOddsAlwaysEven(L) == 0

\* L => { if (L <= 0 || L >= 1) return 0; return Math.log(L / (1 - L)); }
LogOdds(L) == IF L <= 0 \/ L >= 20 THEN 0 ELSE LogOddsOfTwentieths[L]

\* The coefficient of variation turned into a score.
ScoreOf(mean, stdDev) ==
    IF stdDev > 0 /\ mean # 0
    THEN Max(0, 1000 - Quotient(stdDev, Abs(mean), 3))
    ELSE 1000

SquaredDeviations(logOdds, mean) ==
    [i \in 1..Len(logOdds) |-> (logOdds[i] - mean) * (logOdds[i] - mean)]

StdDevOf(logOdds, mean) ==
    Sqrt(SumOf(SquaredDeviations(logOdds, mean)) \div Len(logOdds))

ConvergenceOf(logOdds, mean) == ScoreOf(mean, StdDevOf(logOdds, mean))

\* computeConvergenceScore.  Every log odds of the model is finite, so the
\* filter keeps them all and logOdds is never empty here.
ComputeConvergenceScore(liks) ==
    IF Len(liks) < 2 THEN 0
    ELSE LET logOdds ==
                 [i \in 1..Len(liks) |-> LogOdds(liks[i])]
         IN  ConvergenceOf(logOdds, SumOf(logOdds) \div Len(logOdds))

\* A copy of the array that is left in the order of the caller.
KeepOrder(xs) == xs

\* [...xs].sort((a, b) => a - b)
RECURSIVE InsertAscending(_, _)
InsertAscending(sorted, x) ==
    IF sorted = <<>> THEN <<x>>
    ELSE IF sorted[1] <= x
         THEN <<sorted[1]>> \o InsertAscending(Tail(sorted), x)
         ELSE <<x>> \o sorted

RECURSIVE SortAscending(_)
SortAscending(xs) ==
    IF xs = <<>> THEN <<>>
    ELSE InsertAscending(SortAscending(SubSeq(xs, 1, Len(xs) - 1)),
                         xs[Len(xs)])

\* n * sumXY - sumX * sumY (twentieths by hundredths)
CorrelationNumerator(x, y) ==
    Len(x) * SumOf([i \in 1..Len(x) |-> x[i] * y[i]]) - SumOf(x) * SumOf(y)

\* n * sumX2 - sumX * sumX
Spread(x) ==
    Len(x) * SumOf([i \in 1..Len(x) |-> x[i] * x[i]]) - SumOf(x) * SumOf(x)

\* numerator / denominator in thousandths; the denominator is the square
\* root to one more decimal place than the numerator has.
CorrelationRatio(numerator, denominator) ==
    IF denominator = 0 THEN 0
    ELSE IF numerator >= 0 THEN Quotient(10 * numerator, denominator, 3)
    ELSE -Quotient(10 * (-numerator), denominator, 3)

\* floor(10 * sqrt(p)): the root r of p and the largest digit d with
\* (10 r + d)^2 <= 100 p.
SqrtToOneDecimal(p) ==
    10 * Sqrt(p)
        + CHOOSE d \in 0..9 :
              /\ 20 * Sqrt(p) * d + d * d <= 100 * (p - Sqrt(p) * Sqrt(p))
              /\ \A e \in (d + 1)..9 :
                     20 * Sqrt(p) * e + e * e > 100 * (p - Sqrt(p) * Sqrt(p))

\* computeCorrelation
ComputeCorrelation(x, y) ==
    IF Len(x) # Len(y) \/ Len(x) = 0 THEN 0
    ELSE CorrelationRatio(CorrelationNumerator(x, y),
                          SqrtToOneDecimal(Spread(x) * Spread(y)))

\* ValidateIndependence without the test of the correlation.
ValidateIndependenceByLength(liks, uncertainties) == TRUE

\* validateIndependence
ValidateIndependence(liks, uncertainties) ==
    IF Len(liks) < 2 THEN TRUE
    ELSE Abs(ComputeCorrelation(SortAscending(liks),
                                SortAscending(uncertainties))) < 800

\* L * (weights[i] / totalWeight) in thousandths, the quotient of the
\* weights to four decimal places.
WeightedLikelihoods(supportiveLikelihoods, weights, totalWeight) ==
    [i \in 1..Len(supportiveLikelihoods) |->
        (supportiveLikelihoods[i] * Quotient(weights[i], totalWeight, 4))
            \div 200]

\* weightedLikelihoods.reduce((prod, L) => prod * L, 1.0), in thousandths
RECURSIVE ProductOfWeighted(_, _)
ProductOfWeighted(weighted, i) ==
    IF i = 0 THEN 1000
    ELSE (ProductOfWeighted(weighted, i - 1) * weighted[i]) \div 1000

\* product ** (1.0 / n), in hundredths
GeometricMean(product, n) ==
    IF n = 1 THEN product \div 10
    ELSE RootBetween(product * Pow10(2 * n - 3), n, 0, 1000)

\* Math.min(10.0, geometricMean / Math.max(prior, 0.001)), in hundredths
RelativeToPrior(geometricMean, priorMean) ==
    Min(1000, Quotient(geometricMean, Max(priorMean, 10), 4))

StrengthOf(priorMean, supportiveLikelihoods, weights) ==
    RelativeToPrior(
        GeometricMean(
            ProductOfWeighted(
                WeightedLikelihoods(supportiveLikelihoods, weights,
                                    SumOf(weights)),
                Len(supportiveLikelihoods)),
            Len(supportiveLikelihoods)),
        priorMean)

\* computeCollapseStrength.  The uncertainties taken are the first ones of
\* the array, as many as there are supportive likelihoods
\* (uncertainties.slice(0, supportiveLikelihoods.length)); a weight is
\* 1 / (u + 0.001) in thousandths.
ComputeCollapseStrength(priorMean, liks, uncertainties) ==
    LET supportiveLikelihoods ==
            SelectSeq(liks, LAMBDA L : L > SUPPORTIVE_THRESHOLD)
        supportiveUncertainties ==
            SubSeq(uncertainties, 1,
                   Min(Len(supportiveLikelihoods), Len(uncertainties)))
    IN  IF Len(supportiveLikelihoods) = 0 THEN 0
        ELSE StrengthOf(priorMean, supportiveLikelihoods,
                        [i \in 1..Len(supportiveUncertainties) |->
                            Quotient(1000,
                                     10 * supportiveUncertainties[i] + 1, 3)])

\* A ladder that reads the strength without the collapse flag.
ClassifyByStrength(collapseDetected, isSupportive, significantReduction, convergenceScore, collapseStrength) ==
    IF collapseStrength > 500 THEN "COLLAPSED"
    ELSE IF collapseStrength > 200 THEN "HIGH"
    ELSE IF isSupportive /\ significantReduction /\ convergenceScore > 600
         THEN "MEDIUM"
    ELSE "LOW"

\* classifyConfidenceLevel
ClassifyConfidenceLevel(collapseDetected, isSupportive, significantReduction, convergenceScore, collapseStrength) ==
    IF collapseDetected /\ collapseStrength > 500 THEN "COLLAPSED"
    ELSE IF collapseDetected /\ collapseStrength > 200 THEN "HIGH"
    ELSE IF isSupportive /\ significantReduction /\ convergenceScore > 600
         THEN "MEDIUM"
    ELSE "LOW"

\* The end of detectCollapse, from the four criteria and the strength.
CollapseResultOf(supportiveCount, uncertaintyReduction, convergenceScore, independenceValid, collapseStrength) ==
    LET isSupportive == supportiveCount >= MIN_SUPPORTIVE_LIKELIHOODS
        significantReduction ==
            uncertaintyReduction > UNCERTAINTY_REDUCTION_THRESHOLD
        collapseDetected ==
            /\ isSupportive
            /\ significantReduction
            /\ convergenceScore > CONVERGENCE_THRESHOLD
            /\ independenceValid
    IN  [collapsed |-> collapseDetected,
         supportive_count |-> supportiveCount,
         uncertainty_reduction |-> uncertaintyReduction,
         convergence_score |-> convergenceScore,
         collapse_strength |-> collapseStrength,
         confidence_level |->
             ClassifyConfidenceLevel(collapseDetected, isSupportive,
                                     significantReduction, convergenceScore,
                                     collapseStrength)]

\* detectCollapse.  avgUncertainty is the geometric mean of the
\* uncertainties; an empty array of them (a NaN) is left out of the model.
DetectCollapse(priorMean, liks, uncertainties) ==
    CollapseResultOf(
        Len(SelectSeq(liks, LAMBDA L : L > SUPPORTIVE_THRESHOLD)),
        100 - RootBetween(ProductOf(uncertainties), Len(uncertainties),
                          0, 1000),
        ComputeConvergenceScore(liks),
        ValidateIndependence(liks, uncertainties),
        ComputeCollapseStrength(priorMean, liks, uncertainties))

\* The priors of the model: below the 0.001 the strength divides by at
\* least, 0.1 and 0.5.
CollapsePriors == {5, 1000, 5000}

\* The likelihoods of the model: 0.2, 0.25, 0.5, 0.75, 1.0, 1.5 and 1.8.
LikelihoodRatios == {4, 5, 10, 15, 20, 30, 36}

\* The uncertainties of the model: 0.1 and 0.5.
Uncertainties == {10, 50}

\* The most (likelihood, uncertainty) pairs handed to detectCollapse.
MaxPairs == 3

EvidencePairs ==
    SeqsUpTo(LikelihoodRatios \X Uncertainties, MaxPairs) \ {<<>>}

InitCollapse ==
    /\ \E pairs \in EvidencePairs, priorMean \in CollapsePriors :
          call = [prior |-> priorMean,
                  likelihoods |-> [i \in 1..Len(pairs) |-> pairs[i][1]],
                  uncertainties |-> [i \in 1..Len(pairs) |-> pairs[i][2]]]
    /\ returned = NoResult
    /\ target = NoResult
    /\ evidence = NoResult
    /\ playbook = <<>>
    /\ veto = NoResult
    /\ specific = NoResult
    /\ prior = NoResult
    /\ likelihoods = NoResult
    /\ posterior = NoResult

\* detectCollapse(prior, likelihoods, uncertainties)
DetectCollapseCall ==
    /\ returned = NoResult
    /\ returned' = <<DetectCollapse(call.prior, call.likelihoods,
                                    call.uncertainties)>>
    /\ UNCHANGED <<target, veto, specific, prior, likelihoods, posterior,
                   evidence, playbook, call>>

NextCollapse == DetectCollapseCall

SpecCollapse == InitCollapse /\ [][NextCollapse]_vars

(***************************************************************************)
(* classifyConfidence on its own, on the mean and the variance of a        *)
(* posterior that was not vetoed (computePosteriorWithUncertainty, step    *)
(* 5).  The mean is in ten-thousandths; the variance is the square of a    *)
(* standard deviation in ten-thousandths, so that its root is exact.       *)
(***************************************************************************)

\* Means at, just below and between the thresholds 0.05, 0.15, 0.35 and
\* 0.65, and one just above 1 (the rounding of the normalized mean).
PosteriorMeans ==
    {0, 300, 499, 500, 1000, 1499, 1500, 2500, 3499, 3500, 5000, 6499, 6500,
     8000, 10000, 10001}

\* Standard deviations from 0 to 0.7; 0.1625, 0.2 and 0.25 are a quarter
\* of a mean of the model, 0.05 and 0.5 a half or a third of one.
StandardDeviations == {0, 100, 500, 1000, 1625, 1626, 2000, 2001, 2500, 5000, 7000}

PosteriorVariances ==
    {[n |-> sd * sd, d |-> 100000000] : sd \in StandardDeviations}

InitClassify ==
    /\ call \in [mean : PosteriorMeans, variance : PosteriorVariances]
    /\ returned = NoResult
    /\ target = NoResult
    /\ evidence = NoResult
    /\ playbook = <<>>
    /\ veto = NoResult
    /\ specific = NoResult
    /\ prior = NoResult
    /\ likelihoods = NoResult
    /\ posterior = NoResult

\* classifyConfidence(normalizedMean, posteriorVariance)
ClassifyConfidenceCall ==
    /\ returned = NoResult
    /\ returned' = <<ClassifyConfidence(call.mean, call.variance)>>
    /\ UNCHANGED <<target, veto, specific, prior, likelihoods, posterior,
                   evidence, playbook, call>>

NextClassify == ClassifyConfidenceCall

SpecClassify == InitClassify /\ [][NextClassify]_vars

(***************************************************************************)
(* The regional prior: AuroraBayesianEngine.computeRegionalPrior and the   *)
(* steps of PriorEngineService.computeRegionalPrior that follow the        *)
(* evaluation of the four factors.  A factor is in hundredths; a mean, an  *)
(* uncertainty and the ends of an interval are in ten-thousandths.         *)
(***************************************************************************)

\* prior_floor = 0.01 and prior_ceiling = 0.3, in ten-thousandths
prior_floor == 100

prior_ceiling == 3000

\* PRIOR_FLOOR = 0.01 and PRIOR_CEILING = 0.3, in ten-thousandths
PRIOR_FLOOR == 100

PRIOR_CEILING == 3000

\* (T * A * S * H) ** 0.25 in ten-thousandths, for a product of four
\* factors in hundredths: the square root of the square root.
FourthRoot(product) == Sqrt(Sqrt(product) * 10000)

\* The binary digits of log2(x) after the point, most significant first,
\* for x in [1, 2) in ten-thousandths: square, and halve when 2 is reached.
RECURSIVE Log2Fraction(_, _, _)
Log2Fraction(x, bits, digits) ==
    IF bits = 0 THEN digits
    ELSE LET square == (x * x) \div 10000
         IN  IF square >= 20000
             THEN Log2Fraction(square \div 2, bits - 1, 2 * digits + 1)
             ELSE Log2Fraction(square, bits - 1, 2 * digits)

\* -log2(x) in 1024ths for x in (0, 1] in ten-thousandths: x is doubled
\* until it reaches 1, each doubling counting for 1.
RECURSIVE MinusLog2(_, _)
MinusLog2(x, doublings) ==
    IF x >= 10000 THEN 1024 * doublings - Log2Fraction(x, 10, 0)
    ELSE MinusLog2(2 * x, doublings + 1)

\* Math.abs(Math.log(x)) in thousandths, for x in (0, 1] in
\* ten-thousandths: ln 2 = 0.693.
AbsLog(x) == (MinusLog2(x, 0) * 693) \div 1024

\* The end of AuroraBayesianEngine.computeRegionalPrior, from the constrained
\* mean and the standard deviation Math.sqrt(variance).
RegionalPriorOf(constrainedMean, variance, stdDev, factors) ==
    [mean |-> constrainedMean,
     variance |-> [n |-> variance, d |-> 100000],
     confidence_interval |->
         <<Max(0, constrainedMean - 2 * stdDev),
           Min(10000, constrainedMean + 2 * stdDev)>>,
     tectonic_setting |-> factors[1],
     age_timing |-> factors[2],
     stratigraphic |-> factors[3],
     historical_analogs |-> factors[4]]

\* variance = 0.01 * (1 + |log(constrainedMean)|), in hundred-thousandths
RegionalPriorFrom(constrainedMean, factors) ==
    RegionalPriorOf(constrainedMean,
                    1000 + AbsLog(constrainedMean),
                    Sqrt((1000 + AbsLog(constrainedMean)) * 1000),
                    factors)

\* computeRegionalPrior without the floor and the ceiling; the logarithm of
\* a mean of 0 is taken as that of the smallest mean of the model.
ComputeUnconstrainedPrior(tectonicSetting, ageTiming, stratigraphic, historicalAnalogs) ==
    LET mean == FourthRoot(tectonicSetting * ageTiming * stratigraphic
                               * historicalAnalogs)
        factors == <<tectonicSetting, ageTiming, stratigraphic,
                     historicalAnalogs>>
    IN  [RegionalPriorFrom(Max(1, mean), factors) EXCEPT !.mean = mean]

\* AuroraBayesianEngine.computeRegionalPrior
ComputeRegionalPrior(tectonicSetting, ageTiming, stratigraphic, historicalAnalogs) ==
    RegionalPriorFrom(
        Max(prior_floor,
            Min(prior_ceiling,
                FourthRoot(tectonicSetting * ageTiming * stratigraphic
                               * historicalAnalogs))),
        <<tectonicSetting, ageTiming, stratigraphic, historicalAnalogs>>)

\* PriorEngineService.applyBayesianNetwork
ApplyBayesianNetwork(factors) ==
    FourthRoot(factors.tectonic_setting.compatibility
                   * factors.age_timing.compatibility
                   * factors.stratigraphic.permissibility
                   * factors.historical_analogs.density)

\* PriorEngineService.computePriorUncertainty: the four variances are in
\* ten-thousandths, their root too.
ComputePriorUncertainty(factors) ==
    LET tectonicVar == (100 - factors.tectonic_setting.confidence) * 10
        ageVar == (100 - factors.age_timing.confidence) * 5
        stratVar == (100 - factors.stratigraphic.confidence) * 8
        analogVar == (100 - factors.historical_analogs.similarity_score) * 12
    IN  Sqrt((tectonicVar + ageVar + stratVar + analogVar) * 10000)

\* PriorEngineService.computeConfidenceInterval: zScore = 1.96
ComputeConfidenceInterval(mean, uncertainty) ==
    <<Max(0, mean - (196 * uncertainty) \div 100),
      Min(10000, mean + (196 * uncertainty) \div 100)>>

\* The result of PriorEngineService.computeRegionalPrior, steps 3 to 6.
PriorResultOf(constrainedPrior, uncertainty, factors) ==
    [probability |-> constrainedPrior,
     uncertainty |-> uncertainty,
     confidence_interval |->
         ComputeConfidenceInterval(constrainedPrior, uncertainty),
     factors |-> factors,
     formula |-> "P(D|R) = (T × A × S × H)^0.25"]

\* PriorEngineService.computeRegionalPrior, from the factors on (steps 2 to
\* 6); the reasoning and the metadata are left out.
PriorEngineRegionalPrior(factors) ==
    PriorResultOf(
        Max(PRIOR_FLOOR, Min(PRIOR_CEILING, ApplyBayesianNetwork(factors))),
        ComputePriorUncertainty(factors),
        factors)

\* The compatibilities of the model: 0, 0.02, 0.1, 0.5, 0.9 and 1.
Compatibilities == {0, 2, 10, 50, 90, 100}

\* The RegionalFactors of four compatibilities, with the confidences the
\* service gives them: 0.8 (computeTectonicConfidence), 0.8
\* (evaluateAgeTiming), 0.7 (evaluateStratigraphicPermissibility) and the
\* mean similarity 0.7 of the analogs of getMockAnalogs.
RegionalFactors(c) ==
    [tectonic_setting |-> [compatibility |-> c[1], confidence |-> 80],
     age_timing |-> [compatibility |-> c[2], confidence |-> 80],
     stratigraphic |-> [permissibility |-> c[3], confidence |-> 70],
     historical_analogs |-> [density |-> c[4], similarity_score |-> 70]]

InitPrior ==
    /\ call \in Compatibilities \X Compatibilities \X Compatibilities
                    \X Compatibilities
    /\ returned = [engine |-> NoResult, service |-> NoResult]
    /\ target = NoResult
    /\ evidence = NoResult
    /\ playbook = <<>>
    /\ veto = NoResult
    /\ specific = NoResult
    /\ prior = NoResult
    /\ likelihoods = NoResult
    /\ posterior = NoResult

\* AuroraBayesianEngine.computeRegionalPrior(T, A, S, H)
EngineRegionalPrior ==
    /\ returned.engine = NoResult
    /\ returned' =
           [returned EXCEPT
               !.engine = <<ComputeRegionalPrior(call[1], call[2], call[3],
                                                 call[4])>>]
    /\ UNCHANGED <<target, veto, specific, prior, likelihoods, posterior,
                   evidence, playbook, call>>

\* PriorEngineService.computeRegionalPrior, once the factors are evaluated
ServiceRegionalPrior ==
    /\ returned.service = NoResult
    /\ returned' =
           [returned EXCEPT
               !.service = <<PriorEngineRegionalPrior(RegionalFactors(call))>>]
    /\ UNCHANGED <<target, veto, specific, prior, likelihoods, posterior,
                   evidence, playbook, call>>

NextPrior == EngineRegionalPrior \/ ServiceRegionalPrior

SpecPrior == InitPrior /\ [][NextPrior]_vars

(***************************************************************************)
(* The three copies of parseAge on their own: GeologicalVetoEngine's       *)
(* (ParseAge), PriorEngineService's (PriorEngineParseAge) and              *)
(* CopperPorphyryPlaybook's (PlaybookParseAge).  An age is a sequence of   *)
(* characters and the number returned is in tenths of a Ma.                *)
(***************************************************************************)

\* What may stand before the number, the numbers with their values in
\* tenths, the white space before the unit, the spellings of the unit and
\* what may follow it.
AgePrefixes == {<<>>, <<"c", "a", ".", " ">>, <<"~">>}

AgeNumbers ==
    {[text |-> <<"0">>, tenths |-> 0],
     [text |-> <<"4", "5">>, tenths |-> 450],
     [text |-> <<"2", ".", "5">>, tenths |-> 25],
     [text |-> <<"1", "0", "0">>, tenths |-> 1000],
     [text |-> <<"6", "0", "0">>, tenths |-> 6000]}

AgeSpaces == {<<>>, <<" ">>, <<" ", " ">>}

AgeUnits == {<<"M", "a">>, <<"M", "A">>, <<"m", "a">>, <<"m", "A">>}

AgeSuffixes == {<<>>, <<" ", "B", "P">>}

\* The strings that hold "N Ma", each with its N.
DatedAges ==
    {[age |-> before \o number.text \o space \o unit \o after,
      number |-> <<number.tenths>>] :
        before \in AgePrefixes, number \in AgeNumbers, space \in AgeSpaces,
        unit \in AgeUnits, after \in AgeSuffixes}

\* Strings without it: the empty string, "unknown", a bare number, a bare
\* unit, a number with another unit and a number parted from its unit.
UndatedAges ==
    {[age |-> text, number |-> NoResult] :
        text \in {<<>>,
                  <<"u", "n", "k", "n", "o", "w", "n">>,
                  <<"4", "5">>,
                  <<"M", "a">>,
                  <<"4", "5", " ", "M", "y">>,
                  <<"4", "5", "-", "M", "a">>}}

InitAge ==
    /\ call \in DatedAges \cup UndatedAges
    /\ returned = [veto |-> NoResult, prior |-> NoResult,
                   playbook |-> NoResult]
    /\ target = NoResult
    /\ evidence = NoResult
    /\ playbook = <<>>
    /\ veto = NoResult
    /\ specific = NoResult
    /\ prior = NoResult
    /\ likelihoods = NoResult
    /\ posterior = NoResult

\* GeologicalVetoEngine.parseAge(age)
VetoEngineParsesAge ==
    /\ returned.veto = NoResult
    /\ returned' = [returned EXCEPT !.veto = <<ParseAge(call.age)>>]
    /\ UNCHANGED <<target, veto, specific, prior, likelihoods, posterior,
                   evidence, playbook, call>>

\* PriorEngineService.parseAge(age)
PriorEngineParsesAge ==
    /\ returned.prior = NoResult
    /\ returned' = [returned EXCEPT !.prior = <<PriorEngineParseAge(call.age)>>]
    /\ UNCHANGED <<target, veto, specific, prior, likelihoods, posterior,
                   evidence, playbook, call>>

\* CopperPorphyryPlaybook.parseAge(age)
PlaybookParsesAge ==
    /\ returned.playbook = NoResult
    /\ returned' =
           [returned EXCEPT !.playbook = <<PlaybookParseAge(call.age)>>]
    /\ UNCHANGED <<target, veto, specific, prior, likelihoods, posterior,
                   evidence, playbook, call>>

NextAge == VetoEngineParsesAge \/ PriorEngineParsesAge \/ PlaybookParsesAge

SpecAge == InitAge /\ [][NextAge]_vars

-----------------------------------------------------------------------------
(***************************************************************************)
(* The chemical likelihood: ChemicalLikelihoodService.detectDiagnostic-    *)
(* Minerals and computeMineralLikelihood.  An abundance and an rmse are    *)
(* hundredths, a confidence and a mineral probability thousandths, the     *)
(* likelihood millionths (5.0 is 5000000); products are rounded down.      *)
(***************************************************************************)

DIAGNOSTIC_MINERALS ==
    [copper_porphyry |->
         {"chrysocolla", "malachite", "azurite", "bornite", "chalcopyrite",
           "K-feldspar", "biotite", "magnetite", "sericite", "pyrite"},
     lithium_brine |->
         {"lithium-bearing_clays", "hectorite", "smectite", "illite",
           "halite", "gypsum", "borates", "evaporite_minerals"},
     hydrocarbon_onshore |->
         {"hydrocarbon_seepage", "oil_stains", "bitumen", "gilsonite",
           "hydroxyl-bearing_minerals", "clay_minerals"},
     hydrocarbon_offshore |->
         {"hydrocarbon_seepage", "oil_stains", "gas_seeps",
           "hydrocarbon_induced_minerals", "authigenic_carbonates"}]

\* this.DIAGNOSTIC_MINERALS[commodity] || []
DiagnosticMineralsOf(commodity) ==
    IF commodity \in DOMAIN DIAGNOSTIC_MINERALS
    THEN DIAGNOSTIC_MINERALS[commodity]
    ELSE {}

\* Math.max(0.1, Math.min(1.0, abundance * (1 - rmse) * 2))
ComputeMineralConfidence(abundance, rmse) ==
    Max(100, Min(1000, (abundance * (100 - rmse) * 2) \div 10))

\* The detection pushed for one entry of endmember_abundances.
DetectionOf(entry, rmse) ==
    [mineral_id |-> entry.mineral,
     abundance |-> entry.abundance,
     confidence |-> ComputeMineralConfidence(entry.abundance, rmse),
     spectral_fit_rmse |-> rmse]

\* The inner loop: the entries of one unmixing result, in their order.
DetectIn(entries, rmse, diagnosticMinerals) ==
    LET detected ==
            SelectSeq(entries,
                      LAMBDA e : /\ ArrIncludes(diagnosticMinerals, e.mineral)
                                 /\ e.abundance > 5)
    IN  [i \in 1..Len(detected) |-> DetectionOf(detected[i], rmse)]

RECURSIVE DetectFrom(_, _, _)
DetectFrom(unmixingResults, i, diagnosticMinerals) ==
    IF i > Len(unmixingResults) THEN <<>>
    ELSE DetectIn(unmixingResults[i].endmember_abundances,
                  unmixingResults[i].rmse, diagnosticMinerals)
         \o DetectFrom(unmixingResults, i + 1, diagnosticMinerals)

DetectDiagnosticMinerals(unmixingResults, commodity) ==
    DetectFrom(unmixingResults, 1, DiagnosticMineralsOf(commodity))

\* detection.abundance * detection.confidence, without the floor of 0.1
UnflooredProbability(detection) ==
    (detection.abundance * detection.confidence) \div 100

\* Math.max(0.1, detection.abundance * detection.confidence)
MineralProbability(detection) ==
    Max(100, (detection.abundance * detection.confidence) \div 100)

\* The loop over the detections: likelihoodProduct *= ... for the
\* diagnostic ones.
RECURSIVE LikelihoodProduct(_, _, _, _)
LikelihoodProduct(likelihoodProduct, mineralDetections, i, diagnosticMinerals) ==
    IF i > Len(mineralDetections) THEN likelihoodProduct
    ELSE LikelihoodProduct(
             IF ArrIncludes(diagnosticMinerals,
                            mineralDetections[i].mineral_id)
             THEN (likelihoodProduct
                       * MineralProbability(mineralDetections[i])) \div 1000
             ELSE likelihoodProduct,
             mineralDetections, i + 1, diagnosticMinerals)

\* Math.min(5.0, likelihoodProduct * (1 + detectedMinerals / expectedMinerals))
CoveredLikelihood(likelihoodProduct, detectedMinerals, expectedMinerals) ==
    Min(5000000,
        (likelihoodProduct * (expectedMinerals + detectedMinerals))
            \div expectedMinerals)

ComputeMineralLikelihood(mineralDetections, commodity) ==
    IF Len(mineralDetections) = 0 THEN 100000
    ELSE CoveredLikelihood(
             LikelihoodProduct(1000000, mineralDetections, 1,
                               DiagnosticMineralsOf(commodity)),
             Len(SelectSeq(mineralDetections,
                           LAMBDA d : ArrIncludes(
                                          DiagnosticMineralsOf(commodity),
                                          d.mineral_id))),
             Cardinality(DiagnosticMineralsOf(commodity)))

\* Steps 2 and 5 of computeChemicalLikelihood.
ChemicalLikelihoodOf(mineralDetections, commodity) ==
    [likelihood |-> ComputeMineralLikelihood(mineralDetections, commodity),
     mineral_detections |-> mineralDetections]

(***************************************************************************)
(* The chemical likelihood as a state machine.  call holds the commodity   *)
(* and the unmixing results of the hyperspectral data; an unmixing result  *)
(* holds the abundances of two endmembers, which sum to 1, and its rmse.   *)
(***************************************************************************)

ChemicalCommodities == {"copper_porphyry", "lithium_brine", "gold_orogenic"}

EndmemberPairs ==
    {<<"K-feldspar", "biotite">>, <<"pyrite", "quartz">>,
     <<"halite", "kaolinite">>}

AbundanceSplits == {<<100, 0>>, <<95, 5>>, <<70, 30>>, <<50, 50>>, <<6, 94>>}

RootMeanSquareErrors == {2, 4}

UnmixingResults ==
    {[endmember_abundances |->
          <<[mineral |-> pair[1], abundance |-> split[1]],
            [mineral |-> pair[2], abundance |-> split[2]]>>,
      rmse |-> rmse] :
        pair \in EndmemberPairs, split \in AbundanceSplits,
        rmse \in RootMeanSquareErrors}

MaxUnmixingResults == 2

InitChemical ==
    /\ call \in [commodity : ChemicalCommodities,
                 unmixingResults : SeqsUpTo(UnmixingResults,
                                            MaxUnmixingResults)]
    /\ returned = NoResult
    /\ target = NoResult
    /\ evidence = NoResult
    /\ playbook = <<>>
    /\ veto = NoResult
    /\ specific = NoResult
    /\ prior = NoResult
    /\ likelihoods = NoResult
    /\ posterior = NoResult

\* computeChemicalLikelihood, from the unmixing results on
ComputeChemicalLikelihood ==
    /\ returned = NoResult
    /\ returned' =
           <<ChemicalLikelihoodOf(
                 DetectDiagnosticMinerals(call.unmixingResults,
                                          call.commodity),
                 call.commodity)>>
    /\ UNCHANGED <<target, veto, specific, prior, likelihoods, posterior,
                   evidence, playbook, call>>

NextChemical == ComputeChemicalLikelihood

SpecChemical == InitChemical /\ [][NextChemical]_vars

-----------------------------------------------------------------------------
(***************************************************************************)
(* The age/timing factor of the regional prior: PriorEngineService         *)
(* .evaluateAgeTiming.  An age in Ma is in tenths, a compatibility in      *)
(* ten-thousandths (1 is 10000); the quotient is rounded down.             *)
(***************************************************************************)

ageRequirements ==
    [copper_porphyry |-> <<10, 1000>>,
     lithium_brine |-> <<0, 100>>,
     hydrocarbon_onshore |-> <<500, 5000>>,
     hydrocarbon_offshore |-> <<100, 2000>>]

\* ageRequirements[commodity] || [0, 1000]
RequiredRange(commodity) ==
    IF commodity \in DOMAIN ageRequirements
    THEN ageRequirements[commodity]
    ELSE <<0, 10000>>

\* timingAlignment of an age within [minAge, maxAge]:
\* Math.max(0, 1 - distance / (range / 2)), distance taken from the center.
\* Twice the center is minAge + maxAge, so twice the distance is exact.
AlignmentWithin(ageMa, minAge, maxAge) ==
    Max(0, 10000 - (Abs(2 * ageMa - (minAge + maxAge)) * 10000)
                       \div (maxAge - minAge))

\* timingAlignment of an age outside it: Math.max(0, 0.1 - distance / 1000),
\* distance taken from the nearer end of the range.
AlignmentOutside(ageMa, minAge, maxAge) ==
    Max(0, 1000 - (IF ageMa < minAge THEN minAge - ageMa ELSE ageMa - maxAge))

TimingAlignment(ageMa, minAge, maxAge) ==
    IF ageMa >= minAge /\ ageMa <= maxAge
    THEN AlignmentWithin(ageMa, minAge, maxAge)
    ELSE AlignmentOutside(ageMa, minAge, maxAge)

AgeTimingOf(age, requiredRange, timingAlignment) ==
    [compatibility |-> Max(0, timingAlignment),
     target_age |-> age,
     required_age_range |-> requiredRange,
     timing_alignment |-> timingAlignment,
     confidence |-> 80]

EvaluateAgeTimingOf(age, commodity) ==
    AgeTimingOf(age, RequiredRange(commodity),
                TimingAlignment(PriorEngineParseAge(age),
                                RequiredRange(commodity)[1],
                                RequiredRange(commodity)[2]))

(***************************************************************************)
(* evaluateAgeTiming as a state machine: call holds the commodity and      *)
(* returned the factors returned for the ages asked about so far.          *)
(***************************************************************************)

TimingCommodities ==
    {"copper_porphyry", "lithium_brine", "hydrocarbon_onshore",
     "hydrocarbon_offshore", "gold_orogenic"}

TargetAges ==
    {<<"0", " ", "M", "a">>,
     <<"5", " ", "M", "a">>,
     <<"1", "0", " ", "M", "a">>,
     <<"5", "0", ".", "5", " ", "M", "a">>,
     <<"1", "0", "0", " ", "M", "a">>,
     <<"1", "0", "1", " ", "M", "a">>,
     <<"2", "7", "5", " ", "M", "a">>,
     <<"5", "0", "0", " ", "M", "a">>,
     <<"1", "2", "0", "0", " ", "M", "a">>,
     <<"u", "n", "k", "n", "o", "w", "n">>}

MaxAges == 2

InitTiming ==
    /\ call \in [commodity : TimingCommodities]
    /\ returned = <<>>
    /\ target = NoResult
    /\ evidence = NoResult
    /\ playbook = <<>>
    /\ veto = NoResult
    /\ specific = NoResult
    /\ prior = NoResult
    /\ likelihoods = NoResult
    /\ posterior = NoResult

\* evaluateAgeTiming(age, commodity)
EvaluateAgeTiming ==
    /\ Len(returned) < MaxAges
    /\ \E age \in TargetAges :
           returned' = Append(returned,
                              EvaluateAgeTimingOf(age, call.commodity))
    /\ UNCHANGED <<target, veto, specific, prior, likelihoods, posterior,
                   evidence, playbook, call>>

NextTiming == EvaluateAgeTiming

SpecTiming == InitTiming /\ [][NextTiming]_vars

-----------------------------------------------------------------------------
(***************************************************************************)
(* The data lake: data-lake.ts, AuroraDataLake.  dataRegistry is a Map     *)
(* from an item's id to the item: here the sequence of its entries in      *)
(* insertion order, which is the order entries() iterates in.  A Date is   *)
(* its getTime() in milliseconds and every Date of the model is valid; the *)
(* ISO string of toISOString() carries the same milliseconds, which        *)
(* new Date(string) reads back.  The variable evidence holds the           *)
(* registry, call the ingest calls made so far, returned the value of the  *)
(* last call.                                                              *)
(***************************************************************************)

\* this.dataRegistry
dataRegistry == evidence

\* Map.prototype.set: the value of a key already present is replaced where
\* the key stands; a new key is added at the end.
MapSet(map, key, value) ==
    IF \E i \in 1..Len(map) : map[i].key = key
    THEN [i \in 1..Len(map) |->
             IF map[i].key = key THEN [key |-> key, value |-> value]
             ELSE map[i]]
    ELSE Append(map, [key |-> key, value |-> value])

\* `${dataType}_${data.acquisition_time.getTime()}`
ItemId(dataType, data) == <<dataType, data.acquisition_time>>

\* The STAC item an ingest builds, in the fields searchData reads and the
\* link that carries data.id; platform is left out of a gravity item.
StacItem(dataType, data) ==
    [id |-> ItemId(dataType, data),
     bbox |-> data.bounding_box,
     datetime |-> [iso |-> data.acquisition_time],
     platform |-> IF dataType = "gravity" THEN Undefined ELSE data.platform,
     data_type |-> dataType,
     self |-> <<"catalog", dataType, data.id>>]

\* ingestHyperspectral, ingestSAR and ingestGravity: the registry after the
\* call.
RegistryAfterIngest(map, dataType, data) ==
    MapSet(map, ItemId(dataType, data), StacItem(dataType, data))

\* boundingBoxesOverlap
BoundingBoxesOverlap(bbox1, bbox2) ==
    ~(\/ bbox1.maxx < bbox2[1]
      \/ bbox1.minx > bbox2[3]
      \/ bbox1.maxy < bbox2[2]
      \/ bbox1.miny > bbox2[4])

\* The body of the loop of searchData: whether an item matches.  A criterion
\* that is undefined or the empty string is not applied.
Matches(criteria, item) ==
    /\ ~(/\ criteria.data_type \notin {Undefined, ""}
         /\ item.data_type # criteria.data_type)
    /\ ~(/\ criteria.platform \notin {Undefined, ""}
         /\ item.platform # criteria.platform)
    /\ ~(/\ criteria.bbox # <<>>
         /\ ~BoundingBoxesOverlap(criteria.bbox[1], item.bbox))
    /\ ~(/\ criteria.datetime # <<>>
         /\ \/ item.datetime.iso < criteria.datetime[1]
            \/ item.datetime.iso > criteria.datetime[2])

\* searchData(criteria)
SearchDataOf(map, criteria) ==
    LET items == [i \in 1..Len(map) |-> map[i].value]
    IN  SelectSeq(items, LAMBDA item : Matches(criteria, item))

\* searchData({})
NoCriteria ==
    [data_type |-> Undefined, platform |-> Undefined, bbox |-> <<>>,
     datetime |-> <<>>]

\* The data sets of the model: two ids, two acquisition times, two
\* bounding boxes; one platform for each sensor.
DataTypes == {"hyperspectral", "sar", "gravity"}
DatasetIds == {"survey_a", "survey_b"}
AcquisitionTimes == {1000, 2000}
BoundingBoxes == {<<0, 0, 10, 10>>, <<20, 0, 30, 10>>}

PlatformOf(dataType) ==
    CASE dataType = "hyperspectral" -> "PRISMA"
      [] dataType = "sar" -> "Sentinel-1"
      [] OTHER -> Undefined

Datasets(dataType) ==
    [id : DatasetIds, acquisition_time : AcquisitionTimes,
     bounding_box : BoundingBoxes, platform : {PlatformOf(dataType)}]

\* The criteria searchData is called with: none, each criterion alone (the
\* data type also as the empty string) and all four together.
SearchCriteria ==
    {NoCriteria,
     [NoCriteria EXCEPT !.data_type = ""],
     [NoCriteria EXCEPT !.data_type = "sar"],
     [NoCriteria EXCEPT !.platform = "PRISMA"],
     [NoCriteria EXCEPT
         !.bbox = <<[minx |-> 5, miny |-> 5, maxx |-> 15, maxy |-> 8]>>],
     [NoCriteria EXCEPT !.datetime = <<1000, 1500>>],
     [data_type |-> "hyperspectral", platform |-> "PRISMA",
      bbox |-> <<[minx |-> 5, miny |-> 5, maxx |-> 15, maxy |-> 8]>>,
      datetime |-> <<1000, 1500>>]}

\* The most ingest calls of a behaviour.
MaxIngests == 3

InitDataLake ==
    /\ evidence = <<>>
    /\ call = <<>>
    /\ returned = NoResult
    /\ target = NoResult
    /\ playbook = <<>>
    /\ veto = NoResult
    /\ specific = NoResult
    /\ prior = NoResult
    /\ likelihoods = NoResult
    /\ posterior = NoResult

\* One of the three ingest methods, called with a data set.
Ingest(dataType, data) ==
    /\ Len(call) < MaxIngests
    /\ evidence' = RegistryAfterIngest(dataRegistry, dataType, data)
    /\ call' = Append(call, [operation |-> dataType, data |-> data,
                             item |-> StacItem(dataType, data)])
    /\ returned' = <<[operation |-> dataType, criteria |-> NoCriteria,
                      value |-> <<StacItem(dataType, data)>>]>>
    /\ UNCHANGED <<target, veto, specific, prior, likelihoods, posterior,
                   playbook>>

\* ingestHyperspectral(data)
IngestHyperspectral ==
    \E data \in Datasets("hyperspectral") : Ingest("hyperspectral", data)

\* ingestSAR(data)
IngestSAR == \E data \in Datasets("sar") : Ingest("sar", data)

\* ingestGravity(data)
IngestGravity == \E data \in Datasets("gravity") : Ingest("gravity", data)

\* searchData(criteria)
SearchData ==
    \E criteria \in SearchCriteria :
        /\ returned' = <<[operation |-> "searchData", criteria |-> criteria,
                          value |-> SearchDataOf(dataRegistry, criteria)]>>
        /\ UNCHANGED <<target, veto, specific, prior, likelihoods, posterior,
                       evidence, playbook, call>>

NextDataLake == IngestHyperspectral \/ IngestSAR \/ IngestGravity \/ SearchData

SpecDataLake == InitDataLake /\ [][NextDataLake]_vars

-----------------------------------------------------------------------------
(* Properties of the veto engine *)

\* The categories in the order the taxonomy declares them.
DeclaredOrder == <<"stratigraphic", "temporal", "structural", "preservation">>

\* The condition names the taxonomy lists under a category, in its order.
ListedUnder(category) ==
    (CHOOSE e \in {VETO_TAXONOMY[i] : i \in 1..Len(VETO_TAXONOMY)} :
        e.category = category).conditions

\* Those of them that have a vetoConditions entry, in the same order.
ImplementedUnder(category) ==
    SelectSeq(ListedUnder(category), LAMBDA n : FindCondition(n) # 0)

\* What the check of condition n answers on target t.
Answer(n, t) == RunCheck(vetoConditions[FindCondition(n)].check, t)

\* Condition n is negative on t with a certainty of at least its
\* confidence_required.
IsBlocking(n, t) ==
    /\ ~Answer(n, t).passed
    /\ Answer(n, t).certainty >= vetoConditions[FindCondition(n)].confidence_required

HasBlocking(category, t) ==
    \E i \in 1..Len(ImplementedUnder(category)) :
        IsBlocking(ImplementedUnder(category)[i], t)

Least(S) == CHOOSE x \in S : \A y \in S : x <= y

RECURSIVE ResultsRecorded(_)
ResultsRecorded(trail) ==
    IF trail = <<>> THEN 0
    ELSE Len(Head(trail).all_results) + ResultsRecorded(Tail(trail))

\* C3: evaluateVeto visits the categories in the order stratigraphic,
\* temporal, structural, preservation and stops at the first one that holds a
\* blocking failure: that category is failure_category, and the audit trail
\* holds the results of the categories up to and including it, no later one.
C3_StopsAtFirstBlockingCategory ==
    veto # NoResult =>
        LET blocking == {k \in 1..4 : HasBlocking(DeclaredOrder[k], target)}
        IN  blocking # {} =>
                LET first == Least(blocking)
                IN  /\ ~Veto.passed
                    /\ Veto.failure_category = DeclaredOrder[first]
                    /\ Len(Veto.audit_trail) = first
                    /\ \A k \in 1..(first - 1) : Veto.audit_trail[k].passed
                    /\ ~Veto.audit_trail[first].passed
                    /\ \E i \in 1..Len(ListedUnder(DeclaredOrder[first])) :
                          Veto.audit_trail[first].failed_condition =
                              ListedUnder(DeclaredOrder[first])[i]

\* The target of C3's example: no reservoir unit and an unsealed basin.
C3_Witness ==
    /\ veto # NoResult
    /\ target.reservoir_unit = Undefined
    /\ target.basin_seal = "false"
    /\ IsBlocking("no_reservoir_unit", target)
    /\ IsBlocking("basin_unsealed", target)
    /\ Veto.failure_category = "stratigraphic"
    /\ Len(Veto.audit_trail) = 1

\* C4: in each category a condition blocks exactly when its check is negative
\* with a certainty of at least its confidence_required; the results recorded
\* are those of the conditions in declared order up to the first blocking
\* one, which is failed_condition; a negative result of lower certainty is
\* recorded and the evaluation goes on; nothing after the blocking condition
\* is evaluated.
C4_FirstBlockingConditionWins ==
    veto # NoResult =>
        \A k \in 1..Len(Veto.audit_trail) :
            LET names == ImplementedUnder(DeclaredOrder[k])
                cat == Veto.audit_trail[k]
                got == cat.all_results
                blocking == {i \in 1..Len(names) : IsBlocking(names[i], target)}
            IN  /\ Len(got) <= Len(names)
                /\ \A i \in 1..Len(got) :
                      /\ got[i].passed = Answer(names[i], target).passed
                      /\ got[i].certainty = Answer(names[i], target).certainty
                      /\ got[i].details = Answer(names[i], target).details
                /\ cat.passed <=> blocking = {}
                /\ blocking = {} => /\ Len(got) = Len(names)
                                    /\ cat.failed_condition = Undefined
                /\ blocking # {} => /\ Len(got) = Least(blocking)
                                    /\ cat.failed_condition = names[Least(blocking)]
                                    /\ cat.failure_reason =
                                         Answer(names[Least(blocking)], target).details

\* A negative result below its threshold was recorded in a category that
\* passed, and a later category stopped at its third condition of four.
C4_Witness ==
    /\ veto # NoResult
    /\ Len(Veto.audit_trail) = 4
    /\ Veto.audit_trail[3].passed
    /\ \E i \in 1..Len(Veto.audit_trail[3].all_results) :
          ~Veto.audit_trail[3].all_results[i].passed
    /\ ~Veto.audit_trail[4].passed
    /\ Veto.audit_trail[4].failed_condition = "weathered_destroyed"
    /\ Len(Veto.audit_trail[4].all_results) = 3

\* C5: the veto is absolute: whenever a check that was evaluated returned
\* passed = false, evaluateVeto returns passed = false and probability 0; a
\* result with passed = true has failed_checks = 0.
C5_AnyNegativeCheckVetoes ==
    veto # NoResult =>
        /\ (\E k \in 1..Len(Veto.audit_trail) :
              \E i \in 1..Len(Veto.audit_trail[k].all_results) :
                  ~Veto.audit_trail[k].all_results[i].passed)
               => (~Veto.passed /\ Veto.probability = 0)
        /\ Veto.passed => Veto.failed_checks = 0

\* C6: on a target on which no condition blocks, evaluateVeto returns
\* passed = true and probability 1, an audit trail of 4 category results,
\* one per category in declared order and each passed, and total_checks = 15,
\* the number of veto conditions.
C6_PassingTargetHasFullAudit ==
    (veto # NoResult /\ \A k \in 1..4 : ~HasBlocking(DeclaredOrder[k], target)) =>
        /\ Veto.passed
        /\ Veto.probability = 1
        /\ Len(Veto.audit_trail) = 4
        /\ \A k \in 1..4 :
              /\ Veto.audit_trail[k].passed
              /\ Len(Veto.audit_trail[k].all_results) =
                     Len(ImplementedUnder(DeclaredOrder[k]))
        /\ Veto.total_checks = 15
        /\ Len(vetoConditions) = 15

\* A target that passes although one of its checks was negative.
C6_Witness ==
    /\ veto # NoResult
    /\ \A k \in 1..4 : ~HasBlocking(DeclaredOrder[k], target)
    /\ Veto.passed
    /\ Veto.total_checks = 15
    /\ Veto.passed_checks = 14

\* C7: in every VetoResult probability is 0 or 1, and 1 exactly when passed;
\* failure_category and failure_condition are set exactly when passed is
\* false; total_checks = passed_checks + failed_checks = the number of
\* condition results in the audit trail.
C7_VetoResultIsConsistent ==
    veto # NoResult =>
        /\ Veto.probability \in {0, 1}
        /\ Veto.probability = 1 <=> Veto.passed
        /\ Veto.failure_category # Undefined <=> ~Veto.passed
        /\ Veto.failure_condition # Undefined <=> ~Veto.passed
        /\ Veto.total_checks = Veto.passed_checks + Veto.failed_checks
        /\ Veto.total_checks = ResultsRecorded(Veto.audit_trail)

\* A failed result that counts passed and failed checks over two categories.
C7_Witness ==
    /\ veto # NoResult
    /\ ~Veto.passed
    /\ Len(Veto.audit_trail) >= 2
    /\ Veto.passed_checks >= 1
    /\ Veto.failed_checks >= 2

\* C8: checkSpecificCondition throws its unknown-condition error exactly for
\* the names the taxonomy does not list; for every listed name it returns
\* the check result.
C8_ListedNamesAreChecked ==
    specific # NoResult =>
        /\ Specific.name \notin TaxonomyNames => Specific.threw # None
        /\ Specific.name \in TaxonomyNames =>
              (Specific.threw = None /\ Specific.result # NoResult)

\* The geological-context field each of these checks reads.
FieldRead ==
    [no_reservoir_unit |-> "reservoir_unit", missing_seal |-> "seal_unit",
     basin_unsealed |-> "basin_seal", fault_breach |-> "fault_seal",
     no_closure |-> "trap_type"]

\* C9: a condition check whose geological-context field is absent from the
\* target fails with a validation error and gives no verdict.
C9_AbsentFieldIsAValidationError ==
    (/\ specific # NoResult
     /\ Specific.name \in DOMAIN FieldRead
     /\ target[FieldRead[Specific.name]] = Undefined)
        => (Specific.threw = "ValidationError" /\ Specific.result = NoResult)

-----------------------------------------------------------------------------
(* Properties of the fusion engine *)

\* What computePosteriorWithUncertainty returns for a failed veto, whatever
\* the prior and the likelihoods.
ZeroPosterior(vetoResult) ==
    [mean |-> 0,
     variance |-> [n |-> 0, d |-> 1],
     confidence_class |-> "NOISE",
     uncertainty_bounds |-> <<0, 0>>,
     likelihood_contributions |-> <<>>,
     veto_reason |-> vetoResult.failure_reason,
     normalization_constant |-> [n |-> 0, d |-> 1]]

\* C1: when the veto did not pass, the posterior has mean 0, variance 0,
\* bounds [0, 0], class NOISE, no likelihood contributions and the veto's
\* failure reason as veto_reason: it is a function of the veto result alone,
\* whatever the prior and the likelihoods.
C1_FailedVetoZeroesThePosterior ==
    (posterior # NoResult /\ ~Veto.passed) =>
        Posterior = ZeroPosterior(Veto)

\* A failed veto met two likelihoods, one of mean 5.0, and a prior at the
\* ceiling.
C1_Witness ==
    /\ posterior # NoResult
    /\ ~Veto.passed
    /\ prior.mean = 300
    /\ Len(likelihoods) = 2
    /\ \E i \in 1..Len(likelihoods) : likelihoods[i].mean = 50

\* C2: the posterior mean and both uncertainty bounds lie in [0, 1], and
\* lower <= mean <= upper.
C2_PosteriorWithinUnitInterval ==
    posterior # NoResult =>
        /\ Posterior.mean >= 0 /\ Posterior.mean <= 10000
        /\ Posterior.uncertainty_bounds[1] >= 0
        /\ Posterior.uncertainty_bounds[2] <= 10000
        /\ Posterior.uncertainty_bounds[1] <= Posterior.mean
        /\ Posterior.mean <= Posterior.uncertainty_bounds[2]

-----------------------------------------------------------------------------
(* Properties of the playbook *)

\* C10: two calls of evaluatePlaybook on the same target return equal
\* results: the same supportive_evidence list, overall_assessment,
\* confidence, recommendations and risk_factors.
C10_EvaluatePlaybookIsDeterministic ==
    \A i, j \in 1..Len(playbook) : playbook[i] = playbook[j]

\* The evidence evaluatePlaybook extracts from the target.
Extracted == ExtractEvidence(target, evidence)

\* The places, in declared order, of the mandatory conditions that fail on
\* the target.
FailingMandatory ==
    {k \in 1..Len(mandatory_conditions) :
        ~RunMandatory(mandatory_conditions[k].check, Extracted).passed}

\* C11: the mandatory conditions are evaluated in declared order
\* (tectonic_setting, alteration_assemblage, intrusive_geometry) up to the
\* first failure: failed_condition is the first failing condition,
\* condition_details holds the conditions up to and including it,
\* triggers_veto is true and all_passed false; all_passed is true and
\* triggers_veto false exactly when every condition passes.
C11_MandatoryStopsAtFirstFailure ==
    \A r \in 1..Len(playbook) :
        LET m == playbook[r].mandatory_result
            details == m.condition_details
        IN  /\ <<mandatory_conditions[1].name, mandatory_conditions[2].name,
                 mandatory_conditions[3].name>>
                   = <<"tectonic_setting", "alteration_assemblage",
                       "intrusive_geometry">>
            /\ \A k \in 1..Len(details) :
                  /\ details[k].name = mandatory_conditions[k].name
                  /\ details[k].passed =
                         RunMandatory(mandatory_conditions[k].check,
                                      Extracted).passed
            /\ m.all_passed <=> FailingMandatory = {}
            /\ m.triggers_veto <=> ~m.all_passed
            /\ FailingMandatory = {} =>
                  /\ Len(details) = Len(mandatory_conditions)
                  /\ m.failed_condition = Undefined
            /\ FailingMandatory # {} =>
                  /\ Len(details) = Least(FailingMandatory)
                  /\ m.failed_condition =
                         mandatory_conditions[Least(FailingMandatory)].name

\* An arc target whose second and third conditions both fail: the second is
\* reported and the third is not evaluated.
C11_Witness ==
    /\ Len(playbook) >= 1
    /\ FailingMandatory = {2, 3}
    /\ playbook[1].mandatory_result.failed_condition = "alteration_assemblage"
    /\ Len(playbook[1].mandatory_result.condition_details) = 2

\* The kill factors, in declared order, whose check is true on the target.
TriggeredKillFactors ==
    SelectSeq(kill_factors, LAMBDA k : RunKillFactor(k.check, Extracted))

\* C12: when a kill factor is triggered or a mandatory condition fails,
\* evaluatePlaybook returns overall_assessment unfavorable and confidence
\* 0.9, whatever the supportive evidence; kill_factor_result lists every
\* triggered factor with its description, and killed = requires_veto = the
\* list is not empty.
C12_KillFactorForcesUnfavorable ==
    \A r \in 1..Len(playbook) :
        LET k == playbook[r].kill_factor_result
        IN  /\ Len(k.kill_factors) = Len(TriggeredKillFactors)
            /\ \A i \in 1..Len(k.kill_factors) :
                  /\ k.kill_factors[i].factor = TriggeredKillFactors[i].factor
                  /\ k.kill_factors[i].description =
                         TriggeredKillFactors[i].description
            /\ k.killed <=> Len(TriggeredKillFactors) > 0
            /\ k.requires_veto <=> k.killed
            /\ (k.killed \/ FailingMandatory # {}) =>
                  /\ playbook[r].overall_assessment = "unfavorable"
                  /\ playbook[r].confidence = [n |-> 9, d |-> 10]

\* Every mandatory condition passes and the supportive evidence alone would
\* make the target favorable (three items of strength 1.0), but the age is
\* wrong: one kill factor of the four.
C12_Witness ==
    /\ Len(playbook) >= 1
    /\ FailingMandatory = {}
    /\ Len(playbook[1].kill_factor_result.kill_factors) = 1
    /\ playbook[1].kill_factor_result.kill_factors[1].factor = "wrong_age"
    /\ Len(playbook[1].supportive_evidence) >= 3
    /\ \A i \in 1..3 : playbook[1].supportive_evidence[i].strength = 30
    /\ playbook[1].overall_assessment = "unfavorable"

\* The strengths of the results evaluateSupportiveEvidence retains: those
\* above 0.1.
RetainedStrengths(results) ==
    {i \in 1..Len(results) : results[i].strength > 3}

RECURSIVE TotalOver(_, _)
TotalOver(results, places) ==
    IF places = {} THEN 0
    ELSE LET i == Least(places)
         IN  results[i].strength + TotalOver(results, places \ {i})

\* C13: when every mandatory condition passes and no kill factor is
\* triggered, the assessment is favorable iff the total strength of the
\* retained evidence (strength above 0.1) is above 2.0 and at least two
\* items are above 0.7; otherwise marginal iff the total is above 1.0 and at
\* least one item is above 0.7; otherwise unfavorable.  Three items of 0.8
\* make a favorable target.
C13_AssessmentLadder ==
    (/\ returned # NoResult
     /\ call.mandatory.all_passed
     /\ ~call.killFactors.killed) =>
        LET totalStrength ==
                TotalOver(call.results, RetainedStrengths(call.results))
            strongCount ==
                Cardinality({i \in 1..Len(call.results) :
                                call.results[i].strength > 21})
            favorable == totalStrength > 60 /\ strongCount >= 2
            marginal == ~favorable /\ totalStrength > 30 /\ strongCount >= 1
        IN  /\ returned[1] = "favorable" <=> favorable
            /\ returned[1] = "marginal" <=> marginal
            /\ returned[1] = "unfavorable" <=> ~favorable /\ ~marginal
            /\ call.results = <<[strength |-> 24], [strength |-> 24],
                                [strength |-> 24]>>
                   => returned[1] = "favorable"

\* Three items of strength 0.8 on a target that passed and was not killed.
C13_Witness ==
    /\ returned = <<"favorable">>
    /\ call.mandatory.all_passed
    /\ ~call.killFactors.killed
    /\ call.results = <<[strength |-> 24], [strength |-> 24],
                        [strength |-> 24]>>

(***************************************************************************)
(* Properties of the collapse detector                                     *)
(***************************************************************************)

\* The CollapseResult detectCollapse returned.
Collapse == returned[1]

\* The places of the supportive likelihoods, in order (supportiveIndices of
\* analyzeCollapsePattern).
SupportiveIndices(liks) ==
    SelectSeq([i \in 1..Len(liks) |-> i],
              LAMBDA i : liks[i] > SUPPORTIVE_THRESHOLD)

\* |numerator / sqrt(spreadX * spreadY)| < 0.8, without the square root: a
\* denominator of 0 makes the correlation 0.
CorrelationBelowFourFifths(x, y) ==
    \/ Spread(x) * Spread(y) = 0
    \/ 25 * CorrelationNumerator(x, y) * CorrelationNumerator(x, y)
           < 16 * Spread(x) * Spread(y)

\* C14: detectCollapse reports collapsed = true iff supportive_count (the
\* number of likelihoods above 1.0) is at least 2, uncertainty_reduction is
\* above 0.7 (the geometric mean of the uncertainties is below 0.3),
\* convergence_score is above 0.8 and the correlation of the sorted
\* likelihoods with the sorted uncertainties is below 0.8 in absolute value;
\* with fewer than 2 likelihoods it never reports a collapse.
C14_CollapseNeedsAllFourCriteria ==
    returned # NoResult =>
        LET L == call.likelihoods
            U == call.uncertainties
        IN  /\ Collapse.supportive_count =
                   Cardinality({i \in 1..Len(L) : L[i] > 20})
            /\ Collapse.uncertainty_reduction > 70
                   <=> ~PowerAtMost(30, Len(U), ProductOf(U))
            /\ Collapse.collapsed <=>
                   /\ Collapse.supportive_count >= 2
                   /\ Collapse.uncertainty_reduction > 70
                   /\ Collapse.convergence_score > 800
                   /\ CorrelationBelowFourFifths(SortAscending(L),
                                                 SortAscending(U))
            /\ Len(L) < 2 => ~Collapse.collapsed

\* A collapse on three likelihoods whose correlation with the uncertainties
\* is neither 0 nor above 0.8.
C14_Witness ==
    /\ returned # NoResult
    /\ Collapse.collapsed
    /\ Len(call.likelihoods) = 3
    /\ Spread(SortAscending(call.likelihoods))
           * Spread(SortAscending(call.uncertainties)) # 0

\* Every likelihood of the call is supportive.
AllSupportive == \A i \in 1..Len(call.likelihoods) : call.likelihoods[i] > 20

\* The result of detectCollapse with one more pair at the end.
WithOneMore(L, u) ==
    DetectCollapse(call.prior, Append(call.likelihoods, L),
                   Append(call.uncertainties, u))

\* C15 as stated: supportive_count is the number of likelihoods above 1.0,
\* and adding a likelihood below 1 to a set of supportive likelihoods
\* strictly lowers convergence_score and gives a confidence_level other than
\* COLLAPSED.
C15_LikelihoodBelowOneLowersConvergence ==
    returned # NoResult =>
        /\ Collapse.supportive_count =
               Len(SupportiveIndices(call.likelihoods))
        /\ AllSupportive =>
              \A L \in 1..19, u \in Uncertainties :
                  /\ WithOneMore(L, u).convergence_score
                         < Collapse.convergence_score
                  /\ WithOneMore(L, u).confidence_level # "COLLAPSED"

\* C15, amended: supportive_count is the number of likelihoods above 1.0
\* (2 for [1.5, 1.8]), and adding a likelihood strictly between 0 and 1
\* other than 0.5 to a set of at least two supportive likelihoods strictly
\* lowers convergence_score and gives a confidence_level other than
\* COLLAPSED.
C15_DivergentLikelihoodLowersConvergence ==
    returned # NoResult =>
        /\ Collapse.supportive_count =
               Len(SupportiveIndices(call.likelihoods))
        /\ call.likelihoods = <<30, 36>> => Collapse.supportive_count = 2
        /\ (AllSupportive /\ Len(call.likelihoods) >= 2) =>
              \A L \in (1..19) \ {10}, u \in Uncertainties :
                  /\ WithOneMore(L, u).convergence_score
                         < Collapse.convergence_score
                  /\ WithOneMore(L, u).confidence_level # "COLLAPSED"

\* Likelihoods [1.5, 1.8] with uncertainties [0.1, 0.1] and prior 0.1 are
\* COLLAPSED; a third likelihood of 0.2 takes the score from 1 to 0.
C15_Witness ==
    /\ returned # NoResult
    /\ call = [prior |-> 1000, likelihoods |-> <<30, 36>>,
               uncertainties |-> <<10, 10>>]
    /\ Collapse.supportive_count = 2
    /\ Collapse.convergence_score = 1000
    /\ Collapse.confidence_level = "COLLAPSED"
    /\ WithOneMore(4, 10).convergence_score = 0
    /\ WithOneMore(4, 10).confidence_level = "LOW"

\* C16: collapse_strength is the geometric mean of the supportive
\* likelihoods, each weighted in proportion to 1 / (u + 0.001) for the
\* uncertainty u at that likelihood's own index, divided by
\* max(prior, 0.001) and capped at 10.0; it is 0 when no likelihood is
\* supportive.
C16_StrengthWeighsByOwnUncertainty ==
    returned # NoResult =>
        LET places == SupportiveIndices(call.likelihoods)
        IN  /\ Collapse.collapse_strength <= 1000
            /\ Len(places) = 0 => Collapse.collapse_strength = 0
            /\ Len(places) > 0 =>
                  Collapse.collapse_strength =
                      StrengthOf(
                          call.prior,
                          [k \in 1..Len(places) |->
                              call.likelihoods[places[k]]],
                          [k \in 1..Len(places) |->
                              Quotient(1000,
                                       10 * call.uncertainties[places[k]] + 1,
                                       3)])

(***************************************************************************)
(* Properties of classifyConfidence                                        *)
(***************************************************************************)

\* mean / sqrt(variance) < k for the call's mean and variance, without the
\* root: mean^2 < k^2 * variance.  A variance of 0 makes the ratio Infinity
\* or NaN, which is below no k.
SignalToNoiseBelow(k) == call.mean * call.mean < k * k * call.variance.n

\* C17: confidence_class follows the ladder on the mean and on
\* SNR = mean / sqrt(variance), first match wins: NOISE if mean < 0.05 or
\* SNR < 1; RECON if mean < 0.15 or SNR < 2; PROSPECT if mean < 0.35 or
\* SNR < 3; PRIORITY if mean < 0.65 or SNR < 4; otherwise DRILL_JUSTIFIED,
\* so that DRILL_JUSTIFIED implies mean >= 0.65 and mean^2 >= 16 * variance.
C17_ConfidenceLadder ==
    returned # NoResult =>
        LET noise == call.mean < 500 \/ SignalToNoiseBelow(1)
            recon == call.mean < 1500 \/ SignalToNoiseBelow(2)
            prospect == call.mean < 3500 \/ SignalToNoiseBelow(3)
            priority == call.mean < 6500 \/ SignalToNoiseBelow(4)
        IN  /\ returned[1] = "NOISE" <=> noise
            /\ returned[1] = "RECON" <=> ~noise /\ recon
            /\ returned[1] = "PROSPECT" <=> ~noise /\ ~recon /\ prospect
            /\ returned[1] = "PRIORITY" <=>
                   ~noise /\ ~recon /\ ~prospect /\ priority
            /\ returned[1] = "DRILL_JUSTIFIED" <=>
                   ~noise /\ ~recon /\ ~prospect /\ ~priority
            /\ returned[1] = "DRILL_JUSTIFIED" =>
                   /\ call.mean >= 6500
                   /\ call.mean * call.mean >= 16 * call.variance.n

\* A mean of 0.8 with a standard deviation of 0.2: the ratio is 4, not below
\* 4, and the class is DRILL_JUSTIFIED.
C17_Witness ==
    /\ returned = <<"DRILL_JUSTIFIED">>
    /\ call.mean = 8000
    /\ call.variance.n = 2000 * 2000

(***************************************************************************)
(* Properties of the independence correction                               *)
(***************************************************************************)

\* The likelihoods applyIndependenceCorrection returns for liks, with the
\* matrix computePosteriorWithUncertainty computes for their evidence types.
Corrected(liks) ==
    ApplyIndependenceCorrection(
        liks, ComputeEvidenceCorrelationMatrix(KeysOf(liks)))

\* The maxCorrelation applyIndependenceCorrection finds for each likelihood.
MaxCorrelations(liks) ==
    [i \in 1..Len(liks) |->
        RowMax(ComputeEvidenceCorrelationMatrix(KeysOf(liks))[i]) - 100]

\* C18: the independence correction is idempotent on its own output when
\* the largest correlation stays at or below 0.7: correcting the likelihoods
\* it returned, for the same evidence types, leaves every mean, variance and
\* correction flag unchanged.
C18_CorrectionIsIdempotent ==
    (\A i \in 1..Len(likelihoods) :
        MaxCorrelations(Corrected(likelihoods))[i] <= correlation_threshold)
    => /\ KeysOf(Corrected(likelihoods)) = KeysOf(likelihoods)
       /\ Corrected(Corrected(likelihoods)) = Corrected(likelihoods)

\* A posterior fused from chemical and surface evidence, the pair of the
\* table with the largest correlation (0.7).
C18_Witness ==
    /\ posterior # NoResult
    /\ Veto.passed
    /\ Len(likelihoods) = 2
    /\ KeysOf(likelihoods) = <<"chemical", "surface">>
    /\ ComputeEvidenceCorrelationMatrix(KeysOf(likelihoods))[1][2] = 70
    /\ Corrected(Corrected(likelihoods)) = Corrected(likelihoods)

(***************************************************************************)
(* Properties of the regional prior                                        *)
(***************************************************************************)

\* A prior within [0.01, 0.3] with an interval within [0, 1] around it.
WellFormedPrior(mean, interval) ==
    /\ 100 <= mean
    /\ mean <= 3000
    /\ 0 <= interval[1]
    /\ interval[1] <= mean
    /\ mean <= interval[2]
    /\ interval[2] <= 10000

\* C19: for any four compatibility factors in [0, 1], 0 and 1 included, the
\* prior AuroraBayesianEngine.computeRegionalPrior returns and the
\* probability PriorEngineService.computeRegionalPrior returns lie in
\* [0.01, 0.3], and the confidence interval that comes with each lies
\* within [0, 1] and contains it.
C19_RegionalPriorIsBounded ==
    /\ returned.engine # NoResult =>
           WellFormedPrior(returned.engine[1].mean,
                           returned.engine[1].confidence_interval)
    /\ returned.service # NoResult =>
           WellFormedPrior(returned.service[1].probability,
                           returned.service[1].confidence_interval)

\* Both priors of the factors (0, 1, 1, 1) are raised to the floor, whose
\* interval starts at 0.
C19_Witness ==
    /\ call = <<0, 100, 100, 100>>
    /\ returned.engine # NoResult
    /\ returned.service # NoResult
    /\ returned.engine[1].mean = 100
    /\ returned.service[1].probability = 100
    /\ returned.engine[1].confidence_interval[1] = 0
    /\ returned.service[1].confidence_interval[2] > 100

(***************************************************************************)
(* Properties of parseAge                                                  *)
(***************************************************************************)

\* The values the copies of parseAge that were called returned.
ParsedAges ==
    {returned[copy][1] :
        copy \in {c \in {"veto", "prior", "playbook"} :
                     returned[c] # NoResult}}

\* C20: parseAge maps a string that holds "N Ma" to N ("45 Ma" gives 45)
\* and a string it cannot parse ("unknown", the empty string) to 100,
\* without an error; the copies of the veto engine, of the prior engine and
\* of the copper playbook return the same value for the same string.
C20_ParseAgeCopiesAgree ==
    /\ Cardinality(ParsedAges) <= 1
    /\ call.number # NoResult => ParsedAges \subseteq {call.number[1]}
    /\ call.number = NoResult => ParsedAges \subseteq {1000}
    /\ call.age = <<"4", "5", " ", "M", "a">> => ParsedAges \subseteq {450}

\* The three copies gave 2.5 for "ca. 2.5  mA BP".
C20_Witness ==
    /\ call.age = <<"c", "a", ".", " ", "2", ".", "5", " ", " ", "m", "A",
                    " ", "B", "P">>
    /\ returned = [veto |-> <<25>>, prior |-> <<25>>, playbook |-> <<25>>]

(***************************************************************************)
(* Properties of the chemical likelihood                                   *)
(***************************************************************************)

\* The product of max(0.1, abundance * confidence) over the first k
\* detections, in millionths.
RECURSIVE FlooredProduct(_, _)
FlooredProduct(detections, k) ==
    IF k = 0 THEN 1000000
    ELSE LET p == (detections[k].abundance * detections[k].confidence)
                      \div 100
         IN  (FlooredProduct(detections, k - 1)
                  * (IF p < 100 THEN 100 ELSE p)) \div 1000

\* C21: computeMineralLikelihood returns 0.1 when there are no detections;
\* otherwise it returns the product over the diagnostic detections of
\* max(0.1, abundance * confidence), multiplied by (1 + detected/expected
\* diagnostic count) and capped at 5.0; the chemical likelihood is always
\* > 0 and <= 5.0.
C21_ChemicalLikelihoodIsBounded ==
    returned # NoResult =>
        LET likelihood == returned[1].likelihood
            detections == returned[1].mineral_detections
            expected ==
                Cardinality(DiagnosticMineralsOf(call.commodity))
            scaled ==
                (FlooredProduct(detections, Len(detections))
                     * (expected + Len(detections))) \div expected
        IN  /\ likelihood > 0
            /\ likelihood <= 5000000
            /\ \A i \in DOMAIN detections :
                   detections[i].mineral_id
                       \in DiagnosticMineralsOf(call.commodity)
            /\ Len(detections) = 0 => likelihood = 100000
            /\ Len(detections) > 0 =>
                   likelihood = IF scaled > 5000000 THEN 5000000 ELSE scaled

\* Three diagnostic minerals were detected: one whose probability is
\* raised to 0.1 and one whose probability stands above it.
C21_Witness ==
    /\ returned # NoResult
    /\ Len(returned[1].mineral_detections) = 3
    /\ \E i, j \in DOMAIN returned[1].mineral_detections :
           LET d == returned[1].mineral_detections
           IN  /\ d[i].abundance * d[i].confidence < 10000
               /\ d[j].abundance * d[j].confidence > 10000
    /\ returned[1].likelihood # 100000

(***************************************************************************)
(* Properties of the age/timing factor                                     *)
(***************************************************************************)

\* Twice the distance of the age of a returned factor from the center of
\* its range, in tenths of a Ma.
TwiceFromCenter(factor) ==
    Abs(2 * PriorEngineParseAge(factor.target_age)
            - (factor.required_age_range[1] + factor.required_age_range[2]))

\* C22: the age/timing compatibility is scored by the parsed age's distance
\* from the center of the commodity's [min, max] range: it is 1 at the
\* center, and an age farther from the center never receives a higher
\* compatibility than an age nearer to it, ages at the range boundary
\* against ages just outside the range included.
C22_FartherAgeNeverScoresHigher ==
    /\ \A i \in DOMAIN returned :
           TwiceFromCenter(returned[i]) = 0
               => returned[i].compatibility = 10000
    /\ \A i, j \in DOMAIN returned :
           TwiceFromCenter(returned[i]) > TwiceFromCenter(returned[j])
               => returned[i].compatibility <= returned[j].compatibility

(***************************************************************************)
(* Properties of the normalisation                                         *)
(***************************************************************************)

\* P = prior.mean times the product of the corrected likelihood means, in
\* units of 1 / UnitsPerOne(likelihoods).
FusedProduct == ProductOfMeans(prior.mean, Corrected(likelihoods), 1)

\* C23: for a fusion the veto let through, the posterior mean equals
\* min(1, P / 0.001): whenever P >= 0.001 it is exactly 1, whatever the
\* likelihood values are, and it is below 1 only when P < 0.001.
C23_PosteriorMeanIsOneAboveTheFloor ==
    (posterior # NoResult /\ Veto.passed) =>
        /\ Posterior.mean =
               Min(10000,
                   Quotient(FusedProduct,
                            UnitsPerOne(likelihoods) \div 1000, 4))
        /\ FusedProduct * 1000 >= UnitsPerOne(likelihoods)
               => Posterior.mean = 10000
        /\ Posterior.mean < 10000
               => FusedProduct * 1000 < UnitsPerOne(likelihoods)

Orders(liks) ==
    {[i \in 1..Len(liks) |-> liks[p[i]]] :
        p \in {q \in [1..Len(liks) -> 1..Len(liks)] :
                  \A i, j \in 1..Len(liks) : q[i] = q[j] => i = j}}

\* (1 + prior.variance) times the product of the (1 + variance_i), less 1,
\* as the fraction [n, d].
RECURSIVE OnePlusVariances(_, _)
OnePlusVariances(liks, k) ==
    IF k = 0 THEN [n |-> 1, d |-> 1]
    ELSE [n |-> OnePlusVariances(liks, k - 1).n
                    * (liks[k].variance.n + liks[k].variance.d),
          d |-> OnePlusVariances(liks, k - 1).d * liks[k].variance.d]

ClosedForm(pr, liks) ==
    [n |-> (pr.variance.n + pr.variance.d) * OnePlusVariances(liks, Len(liks)).n
               - pr.variance.d * OnePlusVariances(liks, Len(liks)).d,
     d |-> pr.variance.d * OnePlusVariances(liks, Len(liks)).d]

\* The fraction v is at least the input variance w, whose denominator is 100.
AtLeast(v, w) == v.n >= w.n * (v.d \div 100)

\* C25, as first stated: the posterior variance of a fusion the veto let
\* through does not depend on the order in which the likelihoods are
\* supplied (it equals (1 + prior.variance) * product of (1 + variance_i)
\* - 1) and is never smaller than the prior variance or than any single
\* likelihood variance.
C25_VarianceIsTheClosedForm ==
    (posterior # NoResult /\ Veto.passed) =>
        /\ Posterior.variance =
               [n |-> ClosedForm(prior, likelihoods).n,
                d |-> ClosedForm(prior, likelihoods).d,
                ulps |-> 0]
        /\ AtLeast(Posterior.variance, prior.variance)
        /\ \A i \in 1..Len(likelihoods) :
               AtLeast(Posterior.variance, likelihoods[i].variance)

\* C25: the posterior variance of a fusion the veto let through is
\* (1 + prior.variance) * product of (1 + variance_i) - 1 to within the
\* rounding of its products and sums, so that the order in which the
\* likelihoods are supplied moves it by no more than that rounding, and by
\* nothing when at most one of the variances is above 0; it is never
\* smaller than the prior variance or than any single likelihood variance.
C25_VarianceIsTheClosedFormRounded ==
    (posterior # NoResult /\ Veto.passed) =>
        /\ Posterior.variance.n = ClosedForm(prior, likelihoods).n
        /\ Posterior.variance.d = ClosedForm(prior, likelihoods).d
        /\ Posterior.variance.ulps \in RoundingErrors
        /\ \A order \in Orders(likelihoods) :
               /\ PropagateAll(prior.variance, Corrected(order), 1)
                      = [n |-> Posterior.variance.n,
                         d |-> Posterior.variance.d]
               /\ InexactSteps(prior, Corrected(order)) = {}
                      => Posterior.variance.ulps = 0
        /\ AtLeast(Posterior.variance, prior.variance)
        /\ \A i \in 1..Len(likelihoods) :
               AtLeast(Posterior.variance, likelihoods[i].variance)
        /\ Posterior.variance.n
               = prior.variance.n * (Posterior.variance.d \div 100)
               => Posterior.variance.ulps = 0

\* A prior of variance 0.06 was fused with likelihoods of variances 1.0
\* and 0.01, in this order; the variance returned is 1.1412 displaced by a
\* rounding error.
C25_Witness ==
    /\ posterior # NoResult
    /\ Veto.passed
    /\ prior.variance = [n |-> 6, d |-> 100]
    /\ Len(likelihoods) = 2
    /\ likelihoods[1].variance.n = 100
    /\ likelihoods[2].variance.n = 1
    /\ Posterior.variance = [n |-> 1141200, d |-> 1000000, ulps |-> 1]

(***************************************************************************)
(* Properties of the collapse detector: independence, convergence and the  *)
(* confidence ladder                                                       *)
(***************************************************************************)

\* The call hands over exactly two likelihoods of distinct values and two
\* uncertainties of distinct values.
TwoDistinctPairs ==
    /\ Len(call.likelihoods) = 2
    /\ call.likelihoods[1] # call.likelihoods[2]
    /\ call.uncertainties[1] # call.uncertainties[2]

LogOddsOfCall == [i \in 1..Len(call.likelihoods) |-> LogOdds(call.likelihoods[i])]

\* C27: for two or more likelihoods the convergence score is 1.0 only when
\* the standard deviation of their log odds is zero, that is when all the log
\* odds are equal; likelihoods whose log odds differ (0.25 and 0.75) score
\* strictly below 1.0.
C27_FullConvergenceOnlyWhenLogOddsAgree ==
    (returned # NoResult /\ Len(call.likelihoods) >= 2) =>
        (Collapse.convergence_score = 1000 =>
            \A i, j \in 1..Len(call.likelihoods) :
                LogOddsOfCall[i] = LogOddsOfCall[j])

\* C28: confidence_level is COLLAPSED or HIGH only if collapsed is true, and
\* a collapsed result is MEDIUM, HIGH or COLLAPSED, never LOW.
C28_LadderAgreesWithCollapsed ==
    returned # NoResult =>
        /\ Collapse.confidence_level \in {"COLLAPSED", "HIGH"}
               => Collapse.collapsed
        /\ Collapse.collapsed
               => Collapse.confidence_level \in {"MEDIUM", "HIGH", "COLLAPSED"}

\* A collapsed result whose strength is at most 2.0: it is MEDIUM.
C28_Witness ==
    /\ returned # NoResult
    /\ Collapse.collapsed
    /\ Collapse.collapse_strength <= 200
    /\ Collapse.confidence_level = "MEDIUM"

(***************************************************************************)
(* Properties of the temporal category of the veto engine                  *)
(***************************************************************************)

\* evaluateVeto has returned a failure of the temporal category.
FailedTemporal ==
    /\ veto # NoResult
    /\ ~Veto.passed
    /\ Veto.failure_category = "temporal"

\* C29: whenever evaluateVeto fails in the temporal category the failing
\* condition is timing_mismatch; the charge_after_trap check passes for every
\* target, and age_incompatible_with_commodity, which repeats the check of
\* timing_mismatch later in the category, is never the condition reported.
C29_TemporalFailureIsTimingMismatch ==
    /\ CheckChargeAfterTrap(target).passed
    /\ CheckAgeIncompatible(target) = CheckTimingMismatch(target)
    /\ veto # NoResult =>
           Veto.failure_condition # "age_incompatible_with_commodity"
    /\ FailedTemporal => Veto.failure_condition = "timing_mismatch"

\* A target 600 Ma old fails the temporal category; the check of
\* age_incompatible_with_commodity would be negative for it as well.
C29_Witness ==
    /\ FailedTemporal
    /\ ParseAge(target.age) = 6000
    /\ Veto.failure_condition = "timing_mismatch"
    /\ ~CheckAgeIncompatible(target).passed
    /\ CheckChargeAfterTrap(target).passed

(***************************************************************************)
(* Properties of the data lake                                             *)
(***************************************************************************)

\* The items the registry holds.
StoredItems == {dataRegistry[i].value : i \in 1..Len(dataRegistry)}

\* The ingest calls made so far were each handed another data set: no two
\* calls of the same method had a data set of the same id.
EachIngestOfAnotherDataset ==
    \A i, j \in 1..Len(call) :
        i # j => \/ call[i].operation # call[j].operation
                 \/ call[i].data.id # call[j].data.id

\* C30: after any sequence of ingestHyperspectral, ingestSAR and
\* ingestGravity calls every ingested data set remains in the registry:
\* searchData without criteria returns exactly one item per ingest call made,
\* and no ingest replaces the item an earlier ingest of another data set
\* stored, data sets of the same type and acquisition time included.
C30_EveryIngestedDatasetRemains ==
    EachIngestOfAnotherDataset =>
        /\ \A i \in 1..Len(call) : call[i].item \in StoredItems
        /\ Len(SearchDataOf(dataRegistry, NoCriteria)) = Len(call)
        /\ (/\ returned # NoResult
            /\ returned[1].operation = "searchData"
            /\ returned[1].criteria = NoCriteria)
               => Len(returned[1].value) = Len(call)

====
